---- MODULE Spec2Model ----
(***************************************************************************)
(* Warg registry client (crates/client/src/lib.rs): the checkpoint         *)
(* synchronisation of Client::update_checkpoint, driven by its callers,    *)
(* against a registry server whose answers are unconstrained and a         *)
(* registry storage whose operations may fail.                             *)
(*                                                                         *)
(* registry is the registry storage (self.registry); call[t] is the call   *)
(* task t runs: its position, the caller's values, the locals of           *)
(* update_checkpoint, and under `hist` what the call has done so far,      *)
(* which only the properties read.                                         *)
(*                                                                         *)
(* local is the rest of the client's storage (the staged publish           *)
(* information of the registry storage and the content storage), op the    *)
(* client operation that runs above the synchronizer (publish,             *)
(* publish_with_info, wait_for_publish, download, download_exact).         *)
(*                                                                         *)
(* Option<T> values are sequences: None is <<>>, Some(x) is <<x>>.         *)
(***************************************************************************)
EXTENDS Integers, Sequences, FiniteSets, TLC

VARIABLES registry, call, local, op

vars == <<registry, call, local, op>>

\* ------------------------------------------------------------------ bounds

\* Records the registry can hold per log.
MaxRecords == 2

\* Largest registry index a fetch response can give a record.
MaxIndex == 1

\* Largest log_length a checkpoint can carry.
MaxLogLength == 2

\* Entries a PublishInfo can hold.
MaxEntries == 1

\* Digests the registry can report missing after a publish.
MaxMissing == 2

\* Requests wait_for_publish sends while the record is still processed.
MaxPolls == 3

\* Synchronizations the operations above the synchronizer run in one
\* behaviour.
MaxSyncs == 1

\* ------------------------------------------------------------- data model

None == <<>>

Some(x) == <<x>>

IsSome(o) == o # <<>>

Unwrap(o) == o[1]

\* Package names the registry knows.
PackageNames == {"a", "b"}

\* The packages the callers of this model pass to the synchronizer.
Tracked == {"a"}

\* Tasks that can run a client call; `Spec` runs one at a time.
Tasks == {1, 2}

Roots == {"r1", "r2"}

RegistryIndices == 0 .. MaxIndex

\* LogId::package_log(name) and LogId::operator_log().
package_log(name) == <<"package", name>>

operator_log == <<"operator">>

PackageLogIds == {package_log(n) : n \in PackageNames}

NameOfLog(id) == id[2]

\* Checkpoint { log_length, log_root, map_root }.  Two checkpoints of one
\* length can differ in the log root, in the map root or in both.
Checkpoints ==
    {c \in [log_length : 1 .. MaxLogLength, log_root : Roots,
             map_root : Roots] : c.log_root = "r1" \/ c.map_root = "r1"}

\* The signing part of a SerdeEnvelope<TimestampedCheckpoint>: the key id the
\* envelope declares and whether its signature verifies under the public key
\* registered for that key id.
Envelopes == [key_id : 1 .. MaxRecords, sig_ok : BOOLEAN]

\* SerdeEnvelope<TimestampedCheckpoint>.  The envelope of a call's target is
\* first read by the signature check, and the model draws it there: until
\* then it is None.
TimestampedCheckpoint(checkpoint, envelope) ==
    [checkpoint |-> checkpoint, envelope |-> envelope]

\* A published record as a fetch response carries it: the record (seq is its
\* position in its log's hash chain, which is its content), the
\* registry_index the response gives it, and what the envelope is: "ok", a
\* record the validator rejects whatever the state ("invalid") or an envelope
\* that does not convert ("malformed").  Nothing reads the content of an
\* invalid record or anything of a malformed envelope: one of each stands
\* for all.
Records ==
    {r \in [seq : 1 .. MaxRecords, registry_index : RegistryIndices,
            kind : {"ok", "invalid", "malformed"}] :
        \/ r.kind = "ok"
        \/ r.kind = "invalid" /\ r.seq = 1
        \/ r.kind = "malformed" /\ r.seq = 1 /\ r.registry_index = 0}

\* The fetch token the registry issues with a record.
fetch_token(rec) == <<"token", rec.seq, rec.registry_index>>

\* LogState::head() of a validated state: the last record accepted.
head(state) == IF state = <<>> THEN None ELSE Some(state[Len(state)])

\* LogState::validate: the next state, or None for a validation error.  A
\* record is accepted when its envelope is sound and it extends the head of
\* the log's hash chain.
validate(state, rec) ==
    IF rec.kind = "ok" /\ rec.seq = Len(state) + 1
    THEN Some(Append(state, rec.seq))
    ELSE None

\* operator::LogState::public_key: operator record n authorises key n.
public_key(state, key_id) ==
    IF \E i \in 1 .. Len(state) : state[i] = key_id THEN Some(key_id) ELSE None

\* TimestampedCheckpoint::verify(key, encoded, signature).
verify(key, ts_checkpoint) == Unwrap(ts_checkpoint.envelope).sig_ok

\* OperatorInfo::default().
OperatorInfo_default ==
    [state |-> <<>>, head_registry_index |-> None, head_fetch_token |-> None]

\* PackageInfo::new(name).
PackageInfo_new(name) ==
    [name |-> name, state |-> <<>>, head_registry_index |-> None,
     head_fetch_token |-> None, checkpoint |-> None]

\* ----------------------------------------------------------------- state

\* What a call has done so far; only the properties read it.
\*   registry0, updating0  the storage and the caller's packages at the call
\*   requests, proved      the proof and fetch requests sent, the proofs the
\*                         registry answered and the client accepted
\*   stores                the store operations performed
\*   consistency           the arguments of the consistency request
\*   paged, top, expected, overlap
\*                         the fetch responses seen as pages of the logs
\*                         (see Observe)
\*   unrequested           the log id of a fetch response that no pending
\*                         package has
\*   passed                per log, the registry_index values of the records
\*                         the call passed to the log's validator, in order
\*   fetch                 the last fetch_logs request sent
\*   more                  the `more` of the last fetch response consumed
\*   from                  the stored checkpoint as load_checkpoint found it
NoHist ==
    [registry0 |-> None, updating0 |-> <<>>, requests |-> {}, proved |-> {},
     stores |-> {}, consistency |-> None, paged |-> FALSE, top |-> <<>>,
     expected |-> <<>>, overlap |-> FALSE, unrequested |-> None,
     passed |-> [id \in PackageLogIds \cup {operator_log} |-> <<>>],
     fetch |-> None, more |-> None, from |-> None]

\* A task that runs no call.
IdleCall ==
    [pc |-> "idle", ts_checkpoint |-> None, updating |-> <<>>,
     packages |-> {}, operator |-> OperatorInfo_default, last_known |-> <<>>,
     batches |-> {}, log_id |-> None, to_store |-> {}, result |-> None,
     hist |-> NoHist]

\* PublishInfo { name, head, entries }: the head is the record the new record
\* is to follow, if the caller names one.
PublishEntries ==
    UNION {[1 .. k -> {"Init", "Release"}] : k \in 0 .. MaxEntries}

PublishInfos ==
    [name : Tracked, head : {None} \cup {Some(n) : n \in 1 .. MaxRecords},
     entries : PublishEntries]

\* PublishInfo::initializing: the entries create the package.
initializing(info) ==
    \E i \in 1 .. Len(info.entries) : info.entries[i] = "Init"

Digests == 1 .. MaxMissing

\* PackageRecord::missing_content(): the digests the registry misses, each
\* with or without an upload endpoint, in the order of the iteration.
MissingContents ==
    {m \in UNION {[1 .. k -> [digest : Digests, endpoint : BOOLEAN]] :
                     k \in 0 .. MaxMissing} :
        \A i, j \in 1 .. Len(m) : i # j => m[i].digest # m[j].digest}

\* Versions a download can ask for, and version requirements as the sets of
\* the versions that satisfy them.
Versions == 1 .. MaxRecords

VersionReqs == SUBSET Versions \ {{}}

\* The releases of a validated package state: record 2j - 1 of the log
\* releases version j with the content of digest j, record 2j yanks it, which
\* clears the content.
releases(state) ==
    LET has(n) == \E i \in 1 .. Len(state) : state[i] = n
    IN  {[version |-> j,
          content |-> IF has(2 * j) THEN None ELSE Some(j)] :
            j \in {v \in Versions : has(2 * v - 1)}}

\* package::LogState::release(version).
release(state, version) ==
    IF \E r \in releases(state) : r.version = version
    THEN Some(CHOOSE r \in releases(state) : r.version = version)
    ELSE None

\* Release::content(): the digest, None for a yanked release.
content(r) == r.content

\* package::LogState::find_latest_release(requirement): the release of the
\* highest version that satisfies the requirement and is not yanked.
find_latest_release(state, requirement) ==
    LET matching == {r \in releases(state) :
                        IsSome(r.content) /\ r.version \in requirement}
    IN  IF matching = {} THEN None
        ELSE Some(CHOOSE r \in matching :
                      \A q \in matching : q.version <= r.version)

\* PackageRecordState as get_package_record reports it; only Rejected
\* carries a reason.
Reasons == {"policy", "conflict"}

RecordStates ==
    [state : {"Processing", "Sourcing", "Published"}, reason : {None}]
        \cup [state : {"Rejected"}, reason : {Some(r) : r \in Reasons}]

\* The staged publish information (load_publish / store_publish) and the
\* digests the content storage holds.
EmptyLocal == [publish |-> None, content |-> {}]

\* No client operation runs above the synchronizer.  Of a running one:
\*   pc, kind, via         its position, the method, and for publish_with_info
\*                         who called it
\*   info                  the PublishInfo of a publish
\*   name, wanted          the package, and the version or the version
\*                         requirement of a download
\*   package               the PackageInfo it holds
\*   res, result           the result of publish_with_info that publish
\*                         holds, and what the operation returned
\*   missing               the missing digests still to upload
\*   remote, polls, last   wait_for_publish: the state of the record at the
\*                         registry, the polls sent, the state last seen
\*   requests, accesses, uploaded, slept
\*                         what it has done so far (only the properties read
\*                         these): the network requests sent, the storage
\*                         operations, the digests uploaded, the sleeps
\*   reason                the reason a PublishRejected error carries
\*   download              the version and the digest of the release a
\*                         download resolved
\*   resolved              the package state a download resolved against
\*                         (only the properties read it)
\*   syncs                 the synchronizations entered since Init, over all
\*                         operations
\*   listed                the missing contents as the registry listed them
\*   tried                 the digests whose upload was requested, in the
\*                         order of the requests (only the properties read
\*                         these two)
IdleOp ==
    [pc |-> "idle", kind |-> "none", via |-> "none", info |-> None,
     name |-> None, wanted |-> None, package |-> None, res |-> None,
     result |-> None, missing |-> None, remote |-> None, polls |-> 0,
     last |-> None, requests |-> {}, accesses |-> {}, uploaded |-> {},
     slept |-> 0, syncs |-> 0, reason |-> None, download |-> None,
     resolved |-> None, listed |-> None, tried |-> <<>>]

EmptyRegistry ==
    [operator |-> None,
     packages |-> [n \in PackageNames |-> None],
     checkpoint |-> None]

\* The storage after one synchronization of package "a" to a checkpoint of
\* length 1: the operator log and the package log hold one record each.
SyncedRegistry ==
    LET checkpoint == [log_length |-> 1, log_root |-> "r1", map_root |-> "r1"]
        rec == [seq |-> 1, registry_index |-> 0, kind |-> "ok"]
        envelope == [key_id |-> 1, sig_ok |-> TRUE]
    IN  [operator |-> Some([state |-> <<1>>,
                            head_registry_index |-> Some(0),
                            head_fetch_token |-> Some(fetch_token(rec))]),
         packages |-> [n \in PackageNames |->
             IF n = "a"
             THEN Some([name |-> "a", state |-> <<1>>,
                        head_registry_index |-> Some(0),
                        head_fetch_token |-> Some(fetch_token(rec)),
                        checkpoint |-> Some(checkpoint)])
             ELSE None],
         checkpoint |->
             Some(TimestampedCheckpoint(checkpoint, Some(envelope)))]

Init ==
    /\ registry = EmptyRegistry
    /\ call = [t \in Tasks |-> IdleCall]
    /\ local = EmptyLocal
    /\ op = IdleOp

\* ------------------------------------------------------- call plumbing

Target(t) == Unwrap(call[t].ts_checkpoint)

\* The fetch responses are no pages of the logs (any more): forget them.
Unpaged(h) ==
    [h EXCEPT !.paged = FALSE, !.top = <<>>, !.expected = <<>>,
              !.overlap = FALSE]

\* The call returns `res` ("Ok" or the name of a ClientError): the locals of
\* update_checkpoint are dropped, the caller keeps its checkpoint and its
\* PackageInfo values.
Done(c, res) ==
    [IdleCall EXCEPT !.pc = "done", !.result = Some(res),
                     !.ts_checkpoint = c.ts_checkpoint,
                     !.updating = c.updating,
                     !.hist = Unpaged(c.hist)]

\* A step of the synchronizer: it touches neither the staged publish
\* information nor the content storage nor the operation above it.
SetCall(t, c) ==
    /\ call' = [call EXCEPT ![t] = c]
    /\ UNCHANGED <<local, op>>

Requested(c, what) == [c EXCEPT !.hist.requests = @ \cup {what}]

Proved(c, what) == [c EXCEPT !.hist.proved = @ \cup {what}]

Stored(c, what) == [c EXCEPT !.hist.stores = @ \cup {what}]

\* The validator of log `id` is invoked on record `rec`.
Passed(c, id, rec) ==
    [c EXCEPT !.hist.passed[id] = Append(@, rec.registry_index)]

IndexOfToken(token) == token[3]

\* A record of log `id` arrives in a fetch response.  While every record that
\* arrived is either new (its registry_index is above every index of the log
\* seen so far) or a repeat of a record already applied, the responses are
\* pages of the log: `expected` is then the state that validating each new
\* record once, in the order of the indices, gives (None once that fails) and
\* `top` the highest index seen.  `across` says that a repeat is a record of
\* an earlier page of this call.
Observe(h, id, rec, across) ==
    IF ~h.paged THEN h
    ELSE LET top == h.top[id]
             expected == h.expected[id]
             new == ~IsSome(top) \/ rec.registry_index > Unwrap(top)
             repeat ==
                 /\ rec.kind = "ok"
                 /\ IsSome(expected)
                 /\ \E i \in 1 .. Len(Unwrap(expected)) :
                        Unwrap(expected)[i] = rec.seq
         IN  IF new
             THEN [h EXCEPT !.top[id] = Some(rec.registry_index),
                            !.expected[id] =
                                IF IsSome(expected)
                                THEN validate(Unwrap(expected), rec)
                                ELSE None]
             ELSE IF repeat
             THEN [h EXCEPT !.overlap = @ \/ across]
             ELSE Unpaged(h)

\* ClientError::translate_log_not_found: `e` is Some(id) for a "log not
\* found" error naming log id, None for any other API error; `names` are the
\* packages the lookup closure knows.
translate_log_not_found(e, names) ==
    IF IsSome(e) /\ \E n \in names : package_log(n) = Unwrap(e)
    THEN "PackageDoesNotExist"
    ELSE "Api"

\* ------------------------------------------------------------ the callers

\* registry.load_package(name).unwrap_or_else(|| PackageInfo::new(name)).
load_package_or_new(name) ==
    IF IsSome(registry.packages[name])
    THEN Unwrap(registry.packages[name])
    ELSE PackageInfo_new(name)

\* Client::upsert (and Client::update, which passes every stored package):
\* loads the named packages, asks the registry for its latest checkpoint and
\* enters update_checkpoint.  The registry may answer with any checkpoint.
upsert(t) ==
    /\ call[t].pc = "idle"
    /\ \E names \in SUBSET Tracked, checkpoint \in Checkpoints :
        LET updating == [n \in names |-> load_package_or_new(n)]
            ts == TimestampedCheckpoint(checkpoint, None)
        IN  SetCall(t, [IdleCall EXCEPT
                !.pc = "load_operator",
                !.ts_checkpoint = Some(ts),
                !.updating = updating,
                !.hist = [NoHist EXCEPT !.registry0 = Some(registry),
                                        !.updating0 = updating]])
    /\ UNCHANGED registry

\* ------------------------------------------------------ update_checkpoint

\* Faulty variant of needs_update: every package passed in is updated.
needs_update_always(package_checkpoint, checkpoint) == TRUE

\* The filter of the packages passed in: a package already at the target
\* checkpoint is not updated.
needs_update(package_checkpoint, checkpoint) ==
    ~(IsSome(package_checkpoint) /\ Unwrap(package_checkpoint) = checkpoint)

\* registry.load_operator().unwrap_or_default().
load_operator_or_default ==
    IF IsSome(registry.operator)
    THEN Unwrap(registry.operator)
    ELSE OperatorInfo_default

\* load_operator, the filter, the early return and the initial cursors.
load_operator(t) ==
    LET c == call[t]
        operator == load_operator_or_default
        pending == {n \in DOMAIN c.updating :
                        needs_update(c.updating[n].checkpoint,
                                     Target(t).checkpoint)}
        logs == {operator_log} \cup {package_log(n) : n \in pending}
        info(id) == IF id = operator_log THEN operator
                    ELSE c.updating[NameOfLog(id)]
    IN  /\ c.pc = "load_operator"
        /\ \/ SetCall(t, Done(c, "Storage"))
           \/ IF pending = {}
              THEN SetCall(t, Done(c, "Ok"))
              ELSE SetCall(t, [c EXCEPT
                      !.pc = "fetch_logs",
                      !.operator = operator,
                      !.packages = pending,
                      !.last_known =
                          [n \in pending |-> c.updating[n].head_fetch_token],
                      !.hist.paged = TRUE,
                      !.hist.top =
                          [id \in logs |-> info(id).head_registry_index],
                      !.hist.expected =
                          [id \in logs |-> Some(info(id).state)]])
        /\ UNCHANGED registry

\* Faulty variant of FetchLogsRequest: the package cursors are the ones the
\* call began with.
FetchLogsRequest_first_cursors(c) ==
    [log_length |-> Unwrap(c.ts_checkpoint).checkpoint.log_length,
     operator |-> c.operator.head_fetch_token,
     packages |-> [n \in c.packages |-> c.hist.updating0[n].head_fetch_token]]

\* FetchLogsRequest { log_length, operator, limit: None, packages }: the
\* length of the target, the operator's fetch token and last_known.
FetchLogsRequest(c) ==
    [log_length |-> Unwrap(c.ts_checkpoint).checkpoint.log_length,
     operator |-> c.operator.head_fetch_token,
     packages |-> c.last_known]

\* api.fetch_logs(...): the request goes out; the registry answers with an
\* error or with a response, whose records the loops below consume.
fetch_logs(t) ==
    LET c == Requested(call[t], "fetch_logs")
        sent == [c EXCEPT !.hist.fetch = Some(FetchLogsRequest(call[t]))]
    IN  /\ c.pc = "fetch_logs"
        /\ \/ \E e \in {None} \cup {Some(id) : id \in PackageLogIds} :
                SetCall(t, Done(sent,
                                translate_log_not_found(e, c.packages)))
           \/ SetCall(t, [sent EXCEPT !.pc = "operator_records"])
        /\ UNCHANGED registry

\* Faulty variant of operator_is_new: a record at the held index is new.
operator_is_new_or_equal(operator, rec) ==
    \/ ~IsSome(operator.head_registry_index)
    \/ rec.registry_index >= Unwrap(operator.head_registry_index)

\* The skip rule of the operator loop.
operator_is_new(operator, rec) ==
    \/ ~IsSome(operator.head_registry_index)
    \/ rec.registry_index > Unwrap(operator.head_registry_index)

\* One iteration of `for record in response.operator`.
operator_record(t) ==
    /\ call[t].pc = "operator_records"
    /\ \E rec \in Records :
        LET c == [call[t] EXCEPT
                    !.hist = Observe(@, operator_log, rec, FALSE)]
            next == validate(c.operator.state, rec)
        IN  IF rec.kind = "malformed"
            THEN SetCall(t, Done(c, "Other"))
            ELSE IF ~operator_is_new(c.operator, rec)
            THEN SetCall(t, c)
            ELSE IF ~IsSome(next)
            THEN SetCall(t, Done(Passed(c, operator_log, rec),
                                 "OperatorValidationFailed"))
            ELSE SetCall(t, [Passed(c, operator_log, rec) EXCEPT !.operator =
                    [state |-> Unwrap(next),
                     head_registry_index |-> Some(rec.registry_index),
                     head_fetch_token |-> Some(fetch_token(rec))]])
    /\ UNCHANGED registry

\* The operator loop ends; the package batches of the response follow.
end_operator_records(t) ==
    /\ call[t].pc = "operator_records"
    /\ SetCall(t, [call[t] EXCEPT !.pc = "package_batches"])
    /\ UNCHANGED registry

\* Faulty variant of package_batch: the records of a log id that no pending
\* package has are passed over.
package_batch_lenient(t) ==
    LET c == call[t]
    IN  /\ c.pc = "package_batches"
        /\ \E id \in (PackageLogIds \cup {operator_log}) \ c.batches :
            IF \E n \in c.packages : package_log(n) = id
            THEN SetCall(t, [c EXCEPT !.pc = "package_records",
                                      !.log_id = Some(id)])
            ELSE SetCall(t, [c EXCEPT !.batches = @ \cup {id},
                                      !.hist.unrequested = Some(id)])
        /\ UNCHANGED registry

\* One iteration of `for (log_id, records) in response.packages` begins: the
\* response names a log id, which must be one of the pending packages.
package_batch(t) ==
    LET c == call[t]
    IN  /\ c.pc = "package_batches"
        /\ \E id \in (PackageLogIds \cup {operator_log}) \ c.batches :
            IF \E n \in c.packages : package_log(n) = id
            THEN SetCall(t, [c EXCEPT !.pc = "package_records",
                                      !.log_id = Some(id)])
            ELSE SetCall(t, Done([c EXCEPT !.hist.unrequested = Some(id)],
                                 "Other"))
        /\ UNCHANGED registry

\* Faulty variant of package_is_new: no record is ever skipped.
package_is_new_always(package, rec) == TRUE

\* Faulty variant of package_is_new: only the first record of a log is new.
package_is_new_first(package, rec) == ~IsSome(package.head_registry_index)

\* The skip rule of the package loop.
package_is_new(package, rec) ==
    \/ ~IsSome(package.head_registry_index)
    \/ rec.registry_index > Unwrap(package.head_registry_index)

\* A record of a page of this call that an earlier page of this call has
\* delivered: its index is above the head the call began with and not above
\* the cursor of the request.
AcrossPages(c, n, rec) ==
    /\ IsSome(c.last_known[n])
    /\ rec.registry_index <= IndexOfToken(Unwrap(c.last_known[n]))
    /\ \/ ~IsSome(c.hist.updating0[n].head_registry_index)
       \/ rec.registry_index >
              Unwrap(c.hist.updating0[n].head_registry_index)

\* One iteration of `for record in records`.  The state is taken out of the
\* PackageInfo before it is validated, so a validation error leaves the
\* default state behind it.
package_record(t) ==
    /\ call[t].pc = "package_records"
    /\ \E rec \in Records :
        LET id == Unwrap(call[t].log_id)
            n == NameOfLog(id)
            c == [call[t] EXCEPT
                    !.hist = Observe(@, id, rec, AcrossPages(call[t], n, rec))]
            package == c.updating[n]
            next == validate(package.state, rec)
        IN  IF rec.kind = "malformed"
            THEN SetCall(t, Done(c, "Other"))
            ELSE IF ~package_is_new(package, rec)
            THEN SetCall(t, c)
            ELSE IF ~IsSome(next)
            THEN SetCall(t, Done([Passed(c, id, rec) EXCEPT
                                      !.updating[n].state = <<>>],
                                 "PackageValidationFailed"))
            ELSE SetCall(t, [Passed(c, id, rec) EXCEPT !.updating[n] =
                    [package EXCEPT
                        !.state = Unwrap(next),
                        !.head_registry_index = Some(rec.registry_index),
                        !.head_fetch_token = Some(fetch_token(rec))]])
    /\ UNCHANGED registry

\* The records of one package log are consumed: the log must not be empty.
end_package_batch(t) ==
    LET c == call[t]
        n == NameOfLog(Unwrap(c.log_id))
    IN  /\ c.pc = "package_records"
        /\ IF ~IsSome(head(c.updating[n].state))
           THEN SetCall(t, Done(c, "PackageLogEmpty"))
           ELSE SetCall(t, [c EXCEPT !.pc = "package_batches",
                                     !.batches = @ \cup {Unwrap(c.log_id)},
                                     !.log_id = None])
        /\ UNCHANGED registry

\* Faulty variant of end_response: the loop goes on to a further request
\* whatever `more` is.
end_response_ignores_more(t) ==
    LET c == [call[t] EXCEPT !.batches = {}]
    IN  /\ c.pc = "package_batches"
        /\ \E more \in BOOLEAN :
            SetCall(t, [c EXCEPT
                    !.pc = "fetch_logs",
                    !.last_known =
                        [n \in c.packages |-> c.updating[n].head_fetch_token],
                    !.hist.more = Some(more)])
        /\ UNCHANGED registry

\* The response is consumed: stop on `more = false`, else refresh the
\* cursors from the packages' fetch tokens and fetch again.  Nothing reads
\* the cursors after the loop: the model drops them there.
end_response(t) ==
    LET c == [call[t] EXCEPT !.batches = {}]
    IN  /\ c.pc = "package_batches"
        /\ \E more \in BOOLEAN :
            IF ~more
            THEN SetCall(t, [c EXCEPT !.pc = "verify_checkpoint",
                                      !.last_known = <<>>,
                                      !.hist.more = Some(more)])
            ELSE SetCall(t, [c EXCEPT
                    !.pc = "fetch_logs",
                    !.last_known =
                        [n \in c.packages |-> c.updating[n].head_fetch_token],
                    !.hist.more = Some(more)])
        /\ UNCHANGED registry

\* The call holds a record above a cursor of its last request: the response
\* delivered one and the call accepted it.
AboveCursor(c) ==
    LET request == Unwrap(c.hist.fetch)
    IN  \/ c.operator.head_fetch_token # request.operator
        \/ \E n \in c.packages :
               c.updating[n].head_fetch_token # request.packages[n]

\* end_response against a registry that sets `more` only in a response that
\* delivered a record above a cursor of the request.
end_response_progress(t) ==
    /\ end_response(t)
    /\ call'[t].pc = "fetch_logs" => AboveCursor(call[t])

\* Faulty variant of checkpoint_key: the key id is resolved in the operator
\* state of the storage, not in the one the fetched records gave.
checkpoint_key_stored(operator, ts_checkpoint) ==
    public_key(load_operator_or_default.state,
               Unwrap(ts_checkpoint.envelope).key_id)

\* Faulty variant of checkpoint_key: every key id is taken as known.
checkpoint_key_any(operator, ts_checkpoint) ==
    Some(Unwrap(ts_checkpoint.envelope).key_id)

\* The key the checkpoint's key id names in the operator state.
checkpoint_key(operator, ts_checkpoint) ==
    public_key(operator.state, Unwrap(ts_checkpoint.envelope).key_id)

\* "verify checkpoint signature": the envelope of the target is read.
verify_checkpoint(t) ==
    /\ call[t].pc = "verify_checkpoint"
    /\ \E envelope \in Envelopes :
        LET ts == TimestampedCheckpoint(Target(t).checkpoint, Some(envelope))
            c == [call[t] EXCEPT !.ts_checkpoint = Some(ts)]
            key == checkpoint_key(c.operator, ts)
        IN  IF ~IsSome(key)
            THEN SetCall(t, Done(c, "InvalidCheckpointKeyId"))
            ELSE IF ~verify(Unwrap(key), ts)
            THEN SetCall(t, Done(c, "InvalidCheckpointSignature"))
            ELSE SetCall(t, [c EXCEPT !.pc = "prove_inclusion",
                                      !.hist = Unpaged(@)])
    /\ UNCHANGED registry

\* Faulty variant of after_inclusion: a failed inclusion proof is ignored.
after_inclusion_unchecked(c, ok) ==
    IF ok
    THEN [Proved(c, "prove_inclusion") EXCEPT !.pc = "load_checkpoint"]
    ELSE [c EXCEPT !.pc = "load_checkpoint"]

\* `.await?` on the inclusion proof: `ok` is whether the proof was delivered
\* and verified.
after_inclusion(c, ok) ==
    IF ok
    THEN [Proved(c, "prove_inclusion") EXCEPT !.pc = "load_checkpoint"]
    ELSE Done(c, "Api")

\* Faulty variant of prove_inclusion: a package without a head gets no leaf
\* and does not fail the call.
prove_inclusion_without_package_heads(t) ==
    LET c == call[t]
    IN  /\ c.pc = "prove_inclusion"
        /\ IF ~IsSome(c.operator.head_registry_index)
           THEN SetCall(t, Done(c, "NoOperatorRecords"))
           ELSE \E ok \in BOOLEAN :
                   SetCall(t, after_inclusion(Requested(c, "prove_inclusion"),
                                              ok))
        /\ UNCHANGED registry

\* "Prove inclusion for the current log heads": the leafs are built, then the
\* registry is asked for the proof and the proof is checked.
prove_inclusion(t) ==
    LET c == call[t]
    IN  /\ c.pc = "prove_inclusion"
        /\ IF ~IsSome(c.operator.head_registry_index)
           THEN SetCall(t, Done(c, "NoOperatorRecords"))
           ELSE IF \E n \in c.packages :
                       ~IsSome(c.updating[n].head_registry_index)
           THEN SetCall(t, Done(c, "PackageLogEmpty"))
           ELSE \E ok \in BOOLEAN :
                   SetCall(t, after_inclusion(Requested(c, "prove_inclusion"),
                                              ok))
        /\ UNCHANGED registry

\* Faulty variant of progression: a shorter target is compared like an equal
\* one.
progression_no_rewind(from, to) ==
    IF from.log_length < to.log_length THEN "prove_log_consistency"
    ELSE IF from.log_root # to.log_root \/ from.map_root # to.map_root
    THEN "CheckpointChangedLogRootOrMapRoot"
    ELSE "equal"

\* Faulty variant of progression: equal lengths compare the log roots only.
progression_log_root_only(from, to) ==
    IF from.log_length > to.log_length THEN "CheckpointLogLengthRewind"
    ELSE IF from.log_length < to.log_length THEN "prove_log_consistency"
    ELSE IF from.log_root # to.log_root
    THEN "CheckpointChangedLogRootOrMapRoot"
    ELSE "equal"

\* The comparison of the stored checkpoint `from` with the target: what the
\* match on from_log_length.cmp(&to_log_length) decides.
progression(from, to) ==
    IF from.log_length > to.log_length THEN "CheckpointLogLengthRewind"
    ELSE IF from.log_length < to.log_length THEN "prove_log_consistency"
    ELSE IF from.log_root # to.log_root \/ from.map_root # to.map_root
    THEN "CheckpointChangedLogRootOrMapRoot"
    ELSE "equal"

\* Faulty variant of ConsistencyRequest: the map roots are sent.
ConsistencyRequest_map_root(from, to) ==
    [from |-> from.log_length, to |-> to.log_length,
     from_root |-> from.map_root, to_root |-> to.map_root]

\* The arguments of the consistency request.
ConsistencyRequest(from, to) ==
    [from |-> from.log_length, to |-> to.log_length,
     from_root |-> from.log_root, to_root |-> to.log_root]

\* Faulty variant of load_checkpoint: the stored checkpoint is loaded and
\* not compared with the target.
load_checkpoint_unchecked(t) ==
    LET c == [call[t] EXCEPT !.hist.from = Some(registry.checkpoint)]
    IN  /\ c.pc = "load_checkpoint"
        /\ \/ SetCall(t, Done(c, "Storage"))
           \/ SetCall(t, [c EXCEPT !.pc = "store_operator"])
        /\ UNCHANGED registry

\* registry.load_checkpoint() and the match on the two log lengths; for a
\* longer target the consistency request goes out.
load_checkpoint(t) ==
    LET c == [call[t] EXCEPT !.hist.from = Some(registry.checkpoint)]
        to == Target(t).checkpoint
        from == Unwrap(registry.checkpoint).checkpoint
        how == IF IsSome(registry.checkpoint)
               THEN progression(from, to)
               ELSE "first"
    IN  /\ c.pc = "load_checkpoint"
        /\ \/ SetCall(t, Done(c, "Storage"))
           \/ IF how = "prove_log_consistency"
              THEN SetCall(t, [Requested(c, "prove_log_consistency") EXCEPT
                      !.pc = "prove_log_consistency",
                      !.hist.consistency =
                          Some(ConsistencyRequest(from, to))])
              ELSE IF how \in {"first", "equal"}
              THEN SetCall(t, [c EXCEPT !.pc = "store_operator"])
              ELSE SetCall(t, Done(c, how))
        /\ UNCHANGED registry

\* `.await?` on the consistency proof.
after_consistency(c, ok) ==
    IF ok
    THEN [Proved(c, "prove_log_consistency") EXCEPT !.pc = "store_operator"]
    ELSE Done(c, "Api")

\* The answer to the consistency request: the proof is rejected or accepted.
prove_log_consistency(t) ==
    /\ call[t].pc = "prove_log_consistency"
    /\ \E ok \in BOOLEAN : SetCall(t, after_consistency(call[t], ok))
    /\ UNCHANGED registry

\* registry.store_operator(operator).
store_operator(t) ==
    LET c == call[t]
    IN  /\ c.pc = "store_operator"
        /\ \/ SetCall(t, Done(c, "Storage")) /\ UNCHANGED registry
           \/ /\ registry' = [registry EXCEPT !.operator = Some(c.operator)]
              /\ SetCall(t, [Stored(c, <<"operator">>) EXCEPT
                    !.pc = "store_package",
                    !.to_store = c.packages])

\* Faulty variant of store_package: the package is stored with the
\* checkpoint it had.
store_package_keeps_checkpoint(t) ==
    /\ call[t].pc = "store_package"
    /\ \E n \in call[t].to_store :
        LET package == call[t].updating[n]
            c == call[t]
        IN  \/ SetCall(t, Done(c, "Storage")) /\ UNCHANGED registry
            \/ /\ registry' = [registry EXCEPT !.packages[n] = Some(package)]
               /\ SetCall(t, [Stored(c, <<"package", n>>) EXCEPT
                     !.to_store = @ \ {n},
                     !.pc = IF c.to_store = {n}
                            THEN "store_checkpoint" ELSE "store_package"])

\* One iteration of `for package in packages.values_mut()`: the package is
\* given the target checkpoint and stored.
store_package(t) ==
    /\ call[t].pc = "store_package"
    /\ \E n \in call[t].to_store :
        LET package == [call[t].updating[n] EXCEPT
                            !.checkpoint = Some(Target(t).checkpoint)]
            c == [call[t] EXCEPT !.updating[n] = package]
        IN  \/ SetCall(t, Done(c, "Storage")) /\ UNCHANGED registry
            \/ /\ registry' = [registry EXCEPT !.packages[n] = Some(package)]
               /\ SetCall(t, [Stored(c, <<"package", n>>) EXCEPT
                     !.to_store = @ \ {n},
                     !.pc = IF c.to_store = {n}
                            THEN "store_checkpoint" ELSE "store_package"])

\* registry.store_checkpoint(ts_checkpoint) and the return.
store_checkpoint(t) ==
    LET c == call[t]
    IN  /\ c.pc = "store_checkpoint"
        /\ \/ SetCall(t, Done(c, "Storage")) /\ UNCHANGED registry
           \/ /\ registry' = [registry EXCEPT !.checkpoint = c.ts_checkpoint]
              /\ SetCall(t, Done(Stored(c, <<"checkpoint">>), "Ok"))

\* The call has returned; the task is free for the next call.
finish(t) ==
    /\ call[t].pc = "done"
    /\ SetCall(t, IdleCall)
    /\ UNCHANGED registry

\* ------------------------------------------- the operations above the sync

\* The call record with which a caller enters update_checkpoint.
enter_update_checkpoint(updating, checkpoint) ==
    [IdleCall EXCEPT
        !.pc = "load_operator",
        !.ts_checkpoint = Some(TimestampedCheckpoint(checkpoint, None)),
        !.updating = updating,
        !.hist = [NoHist EXCEPT !.registry0 = Some(registry),
                                !.updating0 = updating]]

\* A new operation begins.
NewOp == [IdleOp EXCEPT !.syncs = op.syncs]

\* The operation returns `res` to the user: its locals are dropped.
Finished(o, res) ==
    [o EXCEPT !.pc = "done", !.result = Some(res), !.package = None,
              !.missing = <<>>, !.res = None]

\* publish_with_info (or a download) returns `res`: to Client::publish, which
\* holds it while it clears the staged information, or to the user.
Return(o, res) ==
    IF o.via = "publish"
    THEN [o EXCEPT !.pc = "store_publish", !.res = Some(res),
                   !.package = None, !.missing = <<>>]
    ELSE Finished(o, res)

\* Client::publish: load_publish().await?.ok_or(NotPublishing)?, then
\* publish_with_info.
publish ==
    /\ op.pc = "idle"
    /\ LET o == [NewOp EXCEPT !.kind = "publish",
                               !.accesses = {"load_publish"}]
       IN  \/ op' = Finished(o, "Storage")
           \/ IF IsSome(local.publish)
              THEN op' = [o EXCEPT !.pc = "publish_with_info",
                                   !.via = "publish",
                                   !.info = local.publish]
              ELSE op' = Finished(o, "NotPublishing")
    /\ UNCHANGED <<registry, call, local>>

\* The user calls publish_with_info with a PublishInfo of their own.
call_publish_with_info ==
    /\ op.pc = "idle"
    /\ \E info \in PublishInfos :
           op' = [NewOp EXCEPT !.kind = "publish_with_info",
                                !.via = "user",
                                !.pc = "publish_with_info",
                                !.info = Some(info)]
    /\ UNCHANGED <<registry, call, local>>

\* Faulty variant of check_head: an initializing PublishInfo with an explicit
\* head passes.
check_head_lenient(o) ==
    LET info == Unwrap(o.info)
    IN  IF ~initializing(info) /\ ~IsSome(info.head)
        THEN Return(o, "MustInitializePackage")
        ELSE [o EXCEPT !.pc = "publish_package_record"]

\* The match on (initializing, info.head.is_some()).
check_head(o) ==
    LET info == Unwrap(o.info)
    IN  IF initializing(info) /\ IsSome(info.head)
        THEN Return(o, "CannotInitializePackage")
        ELSE IF ~initializing(info) /\ ~IsSome(info.head)
        THEN Return(o, "MustInitializePackage")
        ELSE [o EXCEPT !.pc = "publish_package_record"]

\* Faulty variant of publish_with_info: the package is loaded before the
\* entries are looked at.
publish_with_info_load_first ==
    /\ op.pc = "publish_with_info"
    /\ LET info == Unwrap(op.info)
           o == [op EXCEPT !.accesses = @ \cup {"load_package"}]
           loaded == [o EXCEPT
                        !.package = Some(load_package_or_new(info.name))]
       IN  \/ op' = Return(o, "Storage")
           \/ IF info.entries = <<>>
              THEN op' = Return(loaded, "NothingToPublish")
              ELSE IF ~initializing(info) /\ ~IsSome(info.head)
              THEN op' = [loaded EXCEPT !.pc = "latest_checkpoint"]
              ELSE op' = check_head(loaded)
    /\ UNCHANGED <<registry, call, local>>

\* publish_with_info up to its first network call: the entries check,
\* load_package, and the decision to synchronize for the head.
publish_with_info ==
    /\ op.pc = "publish_with_info"
    /\ LET info == Unwrap(op.info)
           o == [op EXCEPT !.accesses = @ \cup {"load_package"}]
           loaded == [o EXCEPT
                        !.package = Some(load_package_or_new(info.name))]
       IN  IF info.entries = <<>>
           THEN op' = Return(op, "NothingToPublish")
           ELSE \/ op' = Return(o, "Storage")
                \/ IF ~initializing(info) /\ ~IsSome(info.head)
                   THEN op' = [loaded EXCEPT !.pc = "latest_checkpoint"]
                   ELSE op' = check_head(loaded)
    /\ UNCHANGED <<registry, call, local>>

\* api.latest_checkpoint().await? and the entry into update_checkpoint with
\* the one package the operation holds.
latest_checkpoint ==
    /\ op.pc = "latest_checkpoint"
    /\ call[1].pc = "idle"
    /\ op.syncs < MaxSyncs
    /\ LET o == [op EXCEPT !.requests = @ \cup {"latest_checkpoint"}]
           package == Unwrap(o.package)
       IN  \/ op' = Return(o, "Api") /\ UNCHANGED call
           \/ \E checkpoint \in Checkpoints :
                /\ op' = [o EXCEPT !.pc = "update_checkpoint",
                                   !.syncs = @ + 1]
                /\ call' = [call EXCEPT ![1] =
                       enter_update_checkpoint(
                           [n \in {package.name} |-> package], checkpoint)]
    /\ UNCHANGED <<registry, local>>

\* The operation as update_checkpoint hands it back: the package as the
\* call left it, the requests of the call added to the operation's.
after_update_checkpoint(o) ==
    [o EXCEPT !.requests = @ \cup call[1].hist.requests,
              !.package = Some(call[1].updating[Unwrap(o.package).name])]

\* update_checkpoint has returned to publish_with_info: `.await?`, then the
\* head of the synchronized package becomes the head of the PublishInfo.
publish_after_update ==
    /\ op.pc = "update_checkpoint"
    /\ op.kind \in {"publish", "publish_with_info"}
    /\ call[1].pc = "done"
    /\ LET o == after_update_checkpoint(op)
           res == Unwrap(call[1].result)
       IN  IF res # "Ok"
           THEN op' = Return(o, res)
           ELSE op' = check_head(
                    [o EXCEPT !.info = Some([Unwrap(o.info) EXCEPT
                        !.head = head(Unwrap(o.package).state)])])
    /\ call' = [call EXCEPT ![1] = IdleCall]
    /\ UNCHANGED <<registry, local>>

\* info.finalize(signing_key)? and api.publish_package_record(...).
publish_package_record ==
    /\ op.pc = "publish_package_record"
    /\ LET o == [op EXCEPT !.requests = @ \cup {"publish_package_record"}]
           name == Unwrap(op.info).name
       IN  \/ op' = Return(op, "Other")
           \/ \E e \in {None} \cup {Some(id) : id \in PackageLogIds} :
                op' = Return(o, translate_log_not_found(e, {name}))
           \/ \E missing \in MissingContents :
                op' = [o EXCEPT !.pc = "upload_content",
                                !.missing = missing,
                                !.listed = Some(missing)]
    /\ UNCHANGED <<registry, call, local>>

\* Faulty variant of upload_content: a failed upload is passed over and the
\* loop goes on.
upload_content_continues ==
    /\ op.pc = "upload_content"
    /\ IF op.missing = <<>>
       THEN op' = Return(op, "Ok")
       ELSE LET m == Head(op.missing)
                rest == Tail(op.missing)
                o == [op EXCEPT !.accesses = @ \cup {"load_content"}]
                sent == [o EXCEPT !.requests = @ \cup {"upload_content"},
                                  !.tried = Append(@, m.digest)]
            IN  IF ~m.endpoint
                THEN op' = [op EXCEPT !.missing = rest]
                ELSE \/ op' = Return(o, "Storage")
                     \/ IF m.digest \notin local.content
                        THEN op' = Return(o, "ContentNotFound")
                        ELSE \/ op' = [sent EXCEPT !.missing = rest]
                             \/ op' = [sent EXCEPT
                                          !.missing = rest,
                                          !.uploaded = @ \cup {m.digest}]
    /\ UNCHANGED <<registry, call, local>>

\* One iteration of `for (digest, MissingContent { upload }) in
\* record.missing_content()`, or the end of the loop and Ok(record_id).
upload_content ==
    /\ op.pc = "upload_content"
    /\ IF op.missing = <<>>
       THEN op' = Return(op, "Ok")
       ELSE LET m == Head(op.missing)
                rest == Tail(op.missing)
                o == [op EXCEPT !.accesses = @ \cup {"load_content"}]
                sent == [o EXCEPT !.requests = @ \cup {"upload_content"},
                                  !.tried = Append(@, m.digest)]
            IN  IF ~m.endpoint
                THEN op' = [op EXCEPT !.missing = rest]
                ELSE \/ op' = Return(o, "Storage")
                     \/ IF m.digest \notin local.content
                        THEN op' = Return(o, "ContentNotFound")
                        ELSE \/ \E e \in {"PublishRejected", "Api"} :
                                    op' = Return(sent, e)
                             \/ op' = [sent EXCEPT
                                          !.missing = rest,
                                          !.uploaded = @ \cup {m.digest}]
    /\ UNCHANGED <<registry, call, local>>

\* Faulty variant of store_publish: the staged information is cleared only
\* when publish_with_info succeeded.
store_publish_on_success ==
    /\ op.pc = "store_publish"
    /\ IF op.res = Some("Ok")
       THEN LET o == [op EXCEPT !.accesses = @ \cup {"store_publish"}]
            IN  \/ op' = Finished(o, "Storage") /\ UNCHANGED local
                \/ /\ op' = Finished(o, Unwrap(o.res))
                   /\ local' = [local EXCEPT !.publish = None]
       ELSE op' = Finished(op, Unwrap(op.res)) /\ UNCHANGED local
    /\ UNCHANGED <<registry, call>>

\* Client::publish after publish_with_info: store_publish(None).await?, then
\* the result of publish_with_info.
store_publish ==
    /\ op.pc = "store_publish"
    /\ LET o == [op EXCEPT !.accesses = @ \cup {"store_publish"}]
       IN  \/ op' = Finished(o, "Storage") /\ UNCHANGED local
           \/ /\ op' = Finished(o, Unwrap(o.res))
              /\ local' = [local EXCEPT !.publish = None]
    /\ UNCHANGED <<registry, call>>

\* The operation has returned; the client is free for the next one.
finish_op ==
    /\ op.pc = "done"
    /\ op' = NewOp
    /\ UNCHANGED <<registry, call, local>>

\* ----------------------------------------------- download, download_exact

\* The user calls download(name, requirement).
download ==
    /\ op.pc = "idle"
    /\ \E name \in PackageNames, requirement \in VersionReqs :
           op' = [NewOp EXCEPT !.kind = "download",
                               !.pc = "fetch_package",
                               !.name = Some(name),
                               !.wanted = Some(requirement)]
    /\ UNCHANGED <<registry, call, local>>

\* The user calls download_exact(package, version).
download_exact ==
    /\ op.pc = "idle"
    /\ \E name \in PackageNames, version \in Versions :
           op' = [NewOp EXCEPT !.kind = "download_exact",
                               !.pc = "fetch_package",
                               !.name = Some(name),
                               !.wanted = Some({version})]
    /\ UNCHANGED <<registry, call, local>>

\* Faulty variant of fetch_package: the package is synchronized whether the
\* storage holds it or not.
fetch_package_always_syncs ==
    /\ op.pc = "fetch_package"
    /\ LET name == Unwrap(op.name)
           o == [op EXCEPT !.accesses = @ \cup {"load_package"}]
       IN  \/ op' = Finished(o, "Storage")
           \/ op' = [o EXCEPT !.package = Some(PackageInfo_new(name)),
                              !.pc = "latest_checkpoint"]
    /\ UNCHANGED <<registry, call, local>>

\* Client::fetch_package: a stored package is returned as it is stored, a
\* package the storage does not hold is synchronized first.
fetch_package ==
    /\ op.pc = "fetch_package"
    /\ LET name == Unwrap(op.name)
           o == [op EXCEPT !.accesses = @ \cup {"load_package"}]
       IN  \/ op' = Finished(o, "Storage")
           \/ IF IsSome(registry.packages[name])
              THEN op' = [o EXCEPT !.package = registry.packages[name],
                                   !.pc = "resolve"]
              ELSE op' = [o EXCEPT !.package = Some(PackageInfo_new(name)),
                                   !.pc = "latest_checkpoint"]
    /\ UNCHANGED <<registry, call, local>>

\* update_checkpoint has returned to fetch_package: `.await?`, Ok(info).
fetch_package_after_update ==
    /\ op.pc = "update_checkpoint"
    /\ op.kind \in {"download", "download_exact"}
    /\ call[1].pc = "done"
    /\ LET o == after_update_checkpoint(op)
           res == Unwrap(call[1].result)
       IN  IF res # "Ok"
           THEN op' = Finished(o, res)
           ELSE op' = [o EXCEPT !.pc = "resolve"]
    /\ call' = [call EXCEPT ![1] = IdleCall]
    /\ UNCHANGED <<registry, local>>

\* The release found goes on to download_content.
Resolved(o, r) ==
    [o EXCEPT !.pc = "download_content",
              !.download = Some([version |-> r.version,
                                 digest |-> Unwrap(content(r))])]

\* Faulty variant of find_release: no matching release is an error.
find_release_or_fail ==
    /\ op.pc = "resolve"
    /\ op.kind = "download"
    /\ LET state == Unwrap(op.package).state
           found == find_latest_release(state, Unwrap(op.wanted))
           o == [op EXCEPT !.resolved = Some(state)]
       IN  IF ~IsSome(found)
           THEN op' = Finished(o, "PackageVersionDoesNotExist")
           ELSE IF ~IsSome(content(Unwrap(found)))
           THEN op' = Finished(o, "Other")
           ELSE op' = Resolved(o, Unwrap(found))
    /\ UNCHANGED <<registry, call, local>>

\* download: `match info.state.find_latest_release(requirement)`.
find_release ==
    /\ op.pc = "resolve"
    /\ op.kind = "download"
    /\ LET state == Unwrap(op.package).state
           found == find_latest_release(state, Unwrap(op.wanted))
           o == [op EXCEPT !.resolved = Some(state)]
       IN  IF ~IsSome(found)
           THEN op' = Finished(o, "Ok(None)")
           ELSE IF ~IsSome(content(Unwrap(found)))
           THEN op' = Finished(o, "Other")
           ELSE op' = Resolved(o, Unwrap(found))
    /\ UNCHANGED <<registry, call, local>>

\* Faulty variant of exact_release: a yanked release is a generic error.
exact_release_yanked_is_other ==
    /\ op.pc = "resolve"
    /\ op.kind = "download_exact"
    /\ LET version == CHOOSE v \in Unwrap(op.wanted) : TRUE
           state == Unwrap(op.package).state
           found == release(state, version)
           o == [op EXCEPT !.resolved = Some(state)]
       IN  IF ~IsSome(found)
           THEN op' = Finished(o, "PackageVersionDoesNotExist")
           ELSE IF ~IsSome(content(Unwrap(found)))
           THEN op' = Finished(o, "Other")
           ELSE op' = Resolved(o, Unwrap(found))
    /\ UNCHANGED <<registry, call, local>>

\* download_exact: info.state.release(version) and release.content(), each
\* with ok_or_else(PackageVersionDoesNotExist).
exact_release ==
    /\ op.pc = "resolve"
    /\ op.kind = "download_exact"
    /\ LET version == CHOOSE v \in Unwrap(op.wanted) : TRUE
           state == Unwrap(op.package).state
           found == release(state, version)
           o == [op EXCEPT !.resolved = Some(state)]
       IN  IF ~IsSome(found)
           THEN op' = Finished(o, "PackageVersionDoesNotExist")
           ELSE IF ~IsSome(content(Unwrap(found)))
           THEN op' = Finished(o, "PackageVersionDoesNotExist")
           ELSE op' = Resolved(o, Unwrap(found))
    /\ UNCHANGED <<registry, call, local>>

\* Client::download_content: content the storage holds is not downloaded;
\* other content is requested and stored, and must then be found.
download_content ==
    /\ op.pc = "download_content"
    /\ LET digest == Unwrap(op.download).digest
           asked == [op EXCEPT !.requests = @ \cup {"download_content"}]
           stored == [asked EXCEPT !.accesses = @ \cup {"store_content"}]
       IN  IF digest \in local.content
           THEN op' = Finished(op, "Ok(PackageDownload)") /\ UNCHANGED local
           ELSE \/ op' = Finished(asked, "Api") /\ UNCHANGED local
                \/ op' = Finished(stored, "Storage") /\ UNCHANGED local
                \/ op' = Finished(stored, "ContentNotFound")
                       /\ UNCHANGED local
                \/ /\ op' = Finished(stored, "Ok(PackageDownload)")
                   /\ local' = [local EXCEPT !.content = @ \cup {digest}]
    /\ UNCHANGED <<registry, call>>

\* ------------------------------------------------------- wait_for_publish

\* The user calls wait_for_publish(package, record_id, interval).
wait_for_publish ==
    /\ op.pc = "idle"
    /\ \E name \in PackageNames :
           op' = [op EXCEPT !.kind = "wait_for_publish",
                            !.pc = "get_package_record",
                            !.name = Some(name)]
    /\ UNCHANGED <<registry, call, local>>

\* Client::get_package_record: the request and its answer, the state the
\* record has at the registry or an error.  The model stops polling a record
\* that is still processed after MaxPolls requests.
get_package_record ==
    /\ op.pc = "get_package_record"
    /\ IsSome(op.remote)
    /\ Unwrap(op.remote).state = "Processing" => op.polls < MaxPolls
    /\ LET o == [op EXCEPT !.polls = @ + 1,
                           !.requests = @ \cup {"get_package_record"}]
       IN  \/ \E e \in {None} \cup {Some(id) : id \in PackageLogIds} :
                op' = Finished(o,
                          translate_log_not_found(e, {Unwrap(o.name)}))
           \/ op' = [o EXCEPT !.pc = "match", !.last = o.remote]
    /\ UNCHANGED <<registry, call, local>>

\* Faulty variant of match_state: a record still processed after two
\* requests is given up.
match_state_bounded ==
    /\ op.pc = "match"
    /\ LET current == Unwrap(op.last)
       IN  IF current.state = "Sourcing"
           THEN op' = Finished(op, "PackageMissingContent")
           ELSE IF current.state = "Published"
           THEN op' = Finished(op, "Ok")
           ELSE IF current.state = "Rejected"
           THEN op' = [Finished(op, "PublishRejected") EXCEPT
                           !.reason = current.reason]
           ELSE IF op.polls >= 2
           THEN op' = Finished(op, "Other")
           ELSE op' = [op EXCEPT !.pc = "sleep"]
    /\ UNCHANGED <<registry, call, local>>

\* Faulty variant of match_state: Sourcing is waited out like Processing.
match_state_sourcing_waits ==
    /\ op.pc = "match"
    /\ LET current == Unwrap(op.last)
       IN  IF current.state = "Published"
           THEN op' = Finished(op, "Ok")
           ELSE IF current.state = "Rejected"
           THEN op' = [Finished(op, "PublishRejected") EXCEPT
                           !.reason = current.reason]
           ELSE op' = [op EXCEPT !.pc = "sleep"]
    /\ UNCHANGED <<registry, call, local>>

\* `match current.state`: the three states that end the wait, and
\* Processing, which goes on to the sleep.
match_state ==
    /\ op.pc = "match"
    /\ LET current == Unwrap(op.last)
       IN  IF current.state = "Sourcing"
           THEN op' = Finished(op, "PackageMissingContent")
           ELSE IF current.state = "Published"
           THEN op' = Finished(op, "Ok")
           ELSE IF current.state = "Rejected"
           THEN op' = [Finished(op, "PublishRejected") EXCEPT
                           !.reason = current.reason]
           ELSE op' = [op EXCEPT !.pc = "sleep"]
    /\ UNCHANGED <<registry, call, local>>

\* tokio::time::sleep(interval).await, then the next request.
sleep ==
    /\ op.pc = "sleep"
    /\ op' = [op EXCEPT !.slept = @ + 1, !.pc = "get_package_record"]
    /\ UNCHANGED <<registry, call, local>>

\* The registry finishes processing the record.
process_record ==
    /\ IsSome(op.remote)
    /\ Unwrap(op.remote).state = "Processing"
    /\ \E s \in RecordStates :
        /\ s.state # "Processing"
        /\ op' = [op EXCEPT !.remote = Some(s)]
    /\ UNCHANGED <<registry, call, local>>

\* ------------------------------------------------------ the specification

update_checkpoint(t) ==
    \/ load_operator(t)
    \/ fetch_logs(t)
    \/ operator_record(t)
    \/ end_operator_records(t)
    \/ package_batch(t)
    \/ package_record(t)
    \/ end_package_batch(t)
    \/ end_response(t)
    \/ verify_checkpoint(t)
    \/ prove_inclusion(t)
    \/ load_checkpoint(t)
    \/ prove_log_consistency(t)
    \/ store_operator(t)
    \/ store_package(t)
    \/ store_checkpoint(t)

\* One client, one call at a time: the synchronizer under Client::upsert.
Next ==
    \/ upsert(1)
    \/ update_checkpoint(1)
    \/ finish(1)

Spec == Init /\ [][Next]_vars

\* The publish operations of one client, one at a time, on a storage that
\* is new or synchronized once, and that holds some staged publish
\* information or none and the content of digest 1 or of every digest.
InitPublish ==
    /\ registry \in {EmptyRegistry, SyncedRegistry}
    /\ call = [t \in Tasks |-> IdleCall]
    /\ local \in [publish : {None} \cup {Some(i) : i \in PublishInfos},
                   content : {{1}, Digests}]
    /\ op = IdleOp

NextPublish ==
    \/ publish
    \/ call_publish_with_info
    \/ publish_with_info
    \/ latest_checkpoint
    \/ update_checkpoint(1)
    \/ publish_after_update
    \/ publish_package_record
    \/ upload_content
    \/ store_publish
    \/ finish_op

SpecPublish == InitPublish /\ [][NextPublish]_vars

\* The synchronizer against a registry whose responses set `more` only when
\* they deliver a record above a cursor of the request.
NextFetch ==
    \/ upsert(1)
    \/ load_operator(1)
    \/ fetch_logs(1)
    \/ operator_record(1)
    \/ end_operator_records(1)
    \/ package_batch(1)
    \/ package_record(1)
    \/ end_package_batch(1)
    \/ end_response_progress(1)
    \/ verify_checkpoint(1)
    \/ prove_inclusion(1)
    \/ load_checkpoint(1)
    \/ prove_log_consistency(1)
    \/ store_operator(1)
    \/ store_package(1)
    \/ store_checkpoint(1)
    \/ finish(1)

\* A call that is awaited runs on, its requests are answered, and every
\* response holds finitely many records: the loops over a response end.
SpecFetchFair ==
    /\ Init
    /\ [][NextFetch]_vars
    /\ WF_vars(fetch_logs(1))
    /\ WF_vars(end_operator_records(1))
    /\ WF_vars(end_package_batch(1))
    /\ WF_vars(end_response_progress(1))

\* Two callers synchronize package "a" on one client and one storage, one
\* call each, to checkpoints of one history of the registry; the registry
\* answers each fetch request in one page.
InterleavedCheckpoints ==
    {c \in Checkpoints : c.log_root = "r1" /\ c.map_root = "r1"}

upsert_package(t) ==
    /\ upsert(t)
    /\ DOMAIN call'[t].updating = {"a"}
    /\ Unwrap(call'[t].ts_checkpoint).checkpoint \in InterleavedCheckpoints

end_response_last(t) ==
    /\ end_response(t)
    /\ call'[t].pc # "fetch_logs"

InitInterleaved ==
    /\ registry \in {EmptyRegistry, SyncedRegistry}
    /\ call = [t \in Tasks |-> IdleCall]
    /\ local = EmptyLocal
    /\ op = IdleOp

NextInterleaved ==
    \/ upsert_package(1)
    \/ load_operator(1)
    \/ fetch_logs(1)
    \/ operator_record(1)
    \/ end_operator_records(1)
    \/ package_batch(1)
    \/ package_record(1)
    \/ end_package_batch(1)
    \/ end_response_last(1)
    \/ verify_checkpoint(1)
    \/ prove_inclusion(1)
    \/ load_checkpoint(1)
    \/ prove_log_consistency(1)
    \/ store_operator(1)
    \/ store_package(1)
    \/ store_checkpoint(1)
    \/ upsert_package(2)
    \/ load_operator(2)
    \/ fetch_logs(2)
    \/ operator_record(2)
    \/ end_operator_records(2)
    \/ package_batch(2)
    \/ package_record(2)
    \/ end_package_batch(2)
    \/ end_response_last(2)
    \/ verify_checkpoint(2)
    \/ prove_inclusion(2)
    \/ load_checkpoint(2)
    \/ prove_log_consistency(2)
    \/ store_operator(2)
    \/ store_package(2)
    \/ store_checkpoint(2)

SpecInterleaved == InitInterleaved /\ [][NextInterleaved]_vars

\* The downloads of one client, one at a time, on a storage that is new or
\* synchronized once and that holds the content of digest 1 or none.
InitDownload ==
    /\ registry \in {EmptyRegistry, SyncedRegistry}
    /\ call = [t \in Tasks |-> IdleCall]
    /\ local \in [publish : {None}, content : {{}, {1}}]
    /\ op = IdleOp

NextDownload ==
    \/ download
    \/ download_exact
    \/ fetch_package
    \/ latest_checkpoint
    \/ update_checkpoint(1)
    \/ fetch_package_after_update
    \/ find_release
    \/ exact_release
    \/ download_content
    \/ finish_op

SpecDownload == InitDownload /\ [][NextDownload]_vars

\* One wait_for_publish call for a record in any state at the registry.
InitWait ==
    /\ registry = EmptyRegistry
    /\ call = [t \in Tasks |-> IdleCall]
    /\ local = EmptyLocal
    /\ op \in {[IdleOp EXCEPT !.remote = Some(s)] : s \in RecordStates}

NextWait ==
    \/ wait_for_publish
    \/ get_package_record
    \/ match_state
    \/ sleep
    \/ process_record

SpecWait == InitWait /\ [][NextWait]_vars

\* wait_for_publish runs on: a task of the runtime that is awaited is
\* polled until it completes, a request is answered, a sleep ends.
SpecWaitFair ==
    /\ SpecWait
    /\ WF_vars(get_package_record)
    /\ WF_vars(match_state)
    /\ WF_vars(sleep)

\* ------------------------------------------------------- the properties

H(t) == call[t].hist

Running(t) == call[t].pc # "idle"

Returned(t) == call[t].pc = "done"

Result(t) == Unwrap(call[t].result)

\* The storage as the call found it.
Registry0(t) == Unwrap(H(t).registry0)

\* The packages passed in whose checkpoint is not the target.
Pending0(t) ==
    {n \in DOMAIN H(t).updating0 :
        H(t).updating0[n].checkpoint # Some(Target(t).checkpoint)}

HeadIndex(info) ==
    IF IsSome(info) /\ IsSome(Unwrap(info).head_registry_index)
    THEN Unwrap(Unwrap(info).head_registry_index)
    ELSE -1

\* The call found a latest checkpoint longer than its target.
Rewinds(t) ==
    /\ Running(t)
    /\ IsSome(Registry0(t).checkpoint)
    /\ Target(t).checkpoint.log_length <
           Unwrap(Registry0(t).checkpoint).checkpoint.log_length

\* C1 as stated: a synchronization to a checkpoint shorter than the stored
\* latest one fails, whatever packages are passed, and stores nothing.
C1_RewindFailsWhateverPackages ==
    \A t \in Tasks :
        Rewinds(t) =>
            /\ H(t).stores = {}
            /\ Returned(t) => Result(t) # "Ok"

\* C1 amended: a synchronization to a checkpoint shorter than the stored
\* latest one stores nothing; it fails when a package passed is pending, and
\* with no pending package it returns without an error of its own (success,
\* unless load_operator fails).
C1_RewindRejected ==
    \A t \in Tasks :
        Rewinds(t) =>
            /\ H(t).stores = {}
            /\ registry = Registry0(t)
            /\ Returned(t) /\ Pending0(t) # {} => Result(t) # "Ok"
            /\ Returned(t) /\ Pending0(t) = {} =>
                   Result(t) \in {"Ok", "Storage"}

\* A call with a pending package is refused as a rewind.
C1_Witness ==
    \E t \in Tasks :
        /\ Rewinds(t)
        /\ Returned(t)
        /\ Pending0(t) # {}
        /\ Result(t) = "CheckpointLogLengthRewind"

\* The call found a latest checkpoint of the target's length with another
\* log root or map root.
Equivocates(t) ==
    /\ Running(t)
    /\ IsSome(Registry0(t).checkpoint)
    /\ LET from == Unwrap(Registry0(t).checkpoint).checkpoint
           to == Target(t).checkpoint
       IN  /\ from.log_length = to.log_length
           /\ from.log_root # to.log_root \/ from.map_root # to.map_root

\* The call found a latest checkpoint equal to its target.
SameCheckpoint(t) ==
    /\ Running(t)
    /\ IsSome(Registry0(t).checkpoint)
    /\ Unwrap(Registry0(t).checkpoint).checkpoint = Target(t).checkpoint

\* C2 as stated: a synchronization to a checkpoint of the stored latest
\* one's length with another log root or map root fails and stores nothing;
\* with equal roots the progression check passes.
C2_EquivocationAlwaysFails ==
    \A t \in Tasks :
        /\ Equivocates(t) =>
            /\ H(t).stores = {}
            /\ Returned(t) => Result(t) # "Ok"
        /\ SameCheckpoint(t) /\ Returned(t) =>
            Result(t) \notin {"CheckpointChangedLogRootOrMapRoot",
                              "CheckpointLogLengthRewind"}

\* C2 amended: such a synchronization stores nothing; it fails when a package
\* passed is pending, with CheckpointChangedLogRootOrMapRoot once the
\* inclusion proof has passed (unless load_checkpoint fails); with no pending
\* package it returns without an error of its own.  With equal length and
\* roots the progression check passes, without a consistency request.
C2_EquivocationRejected ==
    \A t \in Tasks :
        /\ Equivocates(t) =>
            /\ H(t).stores = {}
            /\ registry = Registry0(t)
            /\ Returned(t) /\ Pending0(t) # {} => Result(t) # "Ok"
            /\ Returned(t) /\ Pending0(t) = {} =>
                   Result(t) \in {"Ok", "Storage"}
            /\ Returned(t) /\ "prove_inclusion" \in H(t).proved =>
                   Result(t) \in {"CheckpointChangedLogRootOrMapRoot",
                                  "Storage"}
        /\ SameCheckpoint(t) =>
            /\ H(t).consistency = None
            /\ Returned(t) /\ "prove_inclusion" \in H(t).proved =>
                   Result(t) \in {"Ok", "Storage"}

\* A call with a pending package is refused as an equivocation.
C2_Witness ==
    \E t \in Tasks :
        /\ Equivocates(t)
        /\ Returned(t)
        /\ Pending0(t) # {}
        /\ Result(t) = "CheckpointChangedLogRootOrMapRoot"

\* The verifications of a call have all succeeded: records were fetched and
\* validated, the envelope's key is one of the operator state that is being
\* stored and its signature verifies, the inclusion proof was accepted, and
\* the target follows the latest checkpoint the call found.
Verified(t) ==
    /\ "fetch_logs" \in H(t).requests
    /\ IsSome(Target(t).envelope)
    /\ Unwrap(Target(t).envelope).sig_ok
    /\ IsSome(registry.operator)
    /\ IsSome(public_key(Unwrap(registry.operator).state,
                         Unwrap(Target(t).envelope).key_id))
    /\ "prove_inclusion" \in H(t).proved
    /\ \/ ~IsSome(Registry0(t).checkpoint)
       \/ SameCheckpoint(t)
       \/ /\ IsSome(Registry0(t).checkpoint)
          /\ Unwrap(Registry0(t).checkpoint).checkpoint.log_length <
                 Target(t).checkpoint.log_length
          /\ "prove_log_consistency" \in H(t).proved

\* C3: nothing is stored by a call before its fetch loop, signature check,
\* inclusion proof and progression check have all succeeded, and a call that
\* fails in one of them leaves the storage as it found it.
C3_NoPersistenceBeforeVerification ==
    \A t \in Tasks :
        Running(t) =>
            /\ H(t).stores # {} => Verified(t)
            /\ H(t).stores = {} => registry = Registry0(t)
            /\ Returned(t) /\ Result(t) \notin {"Ok", "Storage"} =>
                   H(t).stores = {} /\ registry = Registry0(t)

\* A call has stored the operator after a consistency proof.
C3_Witness ==
    \E t \in Tasks :
        /\ call[t].pc = "store_package"
        /\ H(t).stores = {<<"operator">>}
        /\ "prove_log_consistency" \in H(t).proved
        /\ registry # Registry0(t)

\* C4: a call that returns an error leaves the storage as it found it, and a
\* call with pending packages that returns success has stored the operator,
\* every pending package with the target checkpoint, and the target as the
\* latest checkpoint.
C4_AllOrNothing ==
    \A t \in Tasks :
        Returned(t) =>
            /\ Result(t) # "Ok" => registry = Registry0(t)
            /\ Result(t) = "Ok" /\ Pending0(t) # {} =>
                /\ H(t).stores =
                       {<<"operator">>, <<"checkpoint">>}
                           \cup {<<"package", n>> : n \in Pending0(t)}
                /\ registry.checkpoint = call[t].ts_checkpoint
                /\ \A n \in Pending0(t) :
                       /\ registry.packages[n] = Some(call[t].updating[n])
                       /\ call[t].updating[n].checkpoint =
                              Some(Target(t).checkpoint)

\* C5: the head_registry_index of every package and of the operator never
\* decreases, in the storage and in the memory of a running call, and a call
\* never holds a head below the stored one it started from.
C5_HeadIndexMonotonic ==
    [][/\ HeadIndex(registry'.operator) >= HeadIndex(registry.operator)
       /\ \A n \in PackageNames :
              HeadIndex(registry'.packages[n]) >=
                  HeadIndex(registry.packages[n])
       /\ \A t \in Tasks :
           /\ \A n \in DOMAIN call[t].updating \cap DOMAIN call'[t].updating :
                  /\ HeadIndex(Some(call'[t].updating[n])) >=
                         HeadIndex(Some(call[t].updating[n]))
                  /\ HeadIndex(Some(call'[t].updating[n])) >=
                         HeadIndex(Some(H(t).updating0[n]))
           /\ call[t].pc \notin {"idle", "load_operator", "done"}
                  /\ call'[t].pc \notin {"idle", "done"} =>
                  /\ HeadIndex(Some(call'[t].operator)) >=
                         HeadIndex(Some(call[t].operator))
                  /\ HeadIndex(Some(call'[t].operator)) >=
                         HeadIndex(Registry0(t).operator)
      ]_vars

\* A later call has advanced the stored head of a package.
C5_Witness ==
    \E t \in Tasks :
        /\ Returned(t)
        /\ Result(t) = "Ok"
        /\ HeadIndex(Registry0(t).packages["a"]) >= 0
        /\ HeadIndex(registry.packages["a"]) >
               HeadIndex(Registry0(t).packages["a"])
        /\ IsSome(Registry0(t).checkpoint)
        /\ Target(t).checkpoint.log_length >
               Unwrap(Registry0(t).checkpoint).checkpoint.log_length

\* The call has no pending package.
NoOp(t) == Running(t) /\ Pending0(t) = {}

NoOpFrame(t) ==
    /\ H(t).requests = {}
    /\ H(t).stores = {}
    /\ registry = Registry0(t)
    /\ call[t].updating = H(t).updating0

\* C6 as stated: a call whose packages are all at the target (or that has no
\* package) returns success, sends no request, stores nothing and leaves the
\* storage and the PackageInfo values unchanged.
C6_NoOpReturnsSuccess ==
    \A t \in Tasks :
        NoOp(t) => NoOpFrame(t) /\ (Returned(t) => Result(t) = "Ok")

\* C6 amended: such a call sends no request, stores nothing and leaves the
\* storage and the PackageInfo values unchanged; it returns success unless
\* load_operator, which precedes the filter, fails.
C6_NoOpIdempotent ==
    \A t \in Tasks :
        NoOp(t) =>
            /\ NoOpFrame(t)
            /\ Returned(t) => Result(t) \in {"Ok", "Storage"}

\* A call on a package already at the target has returned success.
C6_Witness ==
    \E t \in Tasks :
        /\ NoOp(t)
        /\ Returned(t)
        /\ Result(t) = "Ok"
        /\ DOMAIN H(t).updating0 # {}

\* The state a running call holds of log `id`.
InMemory(t, id) ==
    IF id = operator_log THEN call[t].operator
    ELSE call[t].updating[NameOfLog(id)]

\* C7: while the fetch responses are pages of the logs (records of a log in
\* increasing registry_index, pages that may overlap), the state and the head
\* of each log during and at the end of the fetch loop are those of
\* validating every distinct record once in the order of the indices.
C7_PagedFetchEquivalence ==
    \A t \in Tasks :
        /\ call[t].pc \in {"fetch_logs", "operator_records",
                           "package_batches", "package_records",
                           "verify_checkpoint"}
        /\ H(t).paged
        => \A id \in DOMAIN H(t).expected :
               /\ IsSome(H(t).expected[id])
               /\ InMemory(t, id).state = Unwrap(H(t).expected[id])
               /\ InMemory(t, id).head_registry_index = H(t).top[id]

\* The fetch loop has ended after pages that overlapped, with two records of
\* the package applied.
C7_Witness ==
    \E t \in Tasks :
        /\ call[t].pc = "verify_checkpoint"
        /\ H(t).paged
        /\ H(t).overlap
        /\ Len(call[t].updating["a"].state) = 2
        /\ Len(call[t].operator.state) = 2

ProofRequests == {"prove_inclusion", "prove_log_consistency"}

\* C8: the step that checks the signature resolves the key id in the operator
\* state the fetched records gave; an unknown key id gives
\* InvalidCheckpointKeyId, a signature that does not verify
\* InvalidCheckpointSignature; the step comes after the fetch loop and before
\* every proof request and every store.
C8_SignatureAgainstUpToDateOperator ==
    [][\A t \in Tasks :
        /\ call[t].pc = "verify_checkpoint" /\ call'[t] # call[t] =>
            LET envelope == Unwrap(Unwrap(call'[t].ts_checkpoint).envelope)
                known == IsSome(public_key(call[t].operator.state,
                                           envelope.key_id))
            IN  /\ "fetch_logs" \in H(t).requests
                /\ H(t).requests \cap ProofRequests = {}
                /\ H(t).stores = {}
                /\ ~known =>
                       call'[t].result = Some("InvalidCheckpointKeyId")
                /\ known /\ ~envelope.sig_ok =>
                       call'[t].result = Some("InvalidCheckpointSignature")
                /\ known /\ envelope.sig_ok =>
                       call'[t].pc = "prove_inclusion"
                /\ call'[t].hist.requests = H(t).requests
                /\ call'[t].hist.stores = {}
        /\ \/ H(t).requests \cap ProofRequests # {}
           \/ H(t).stores # {}
           => /\ IsSome(Target(t).envelope)
              /\ Unwrap(Target(t).envelope).sig_ok
      ]_vars

\* The signature check has passed with a key that the stored operator state
\* does not hold: the records fetched in this call have added it.
C8_Witness ==
    \E t \in Tasks :
        /\ call[t].pc = "prove_inclusion"
        /\ IsSome(registry.operator)
        /\ ~IsSome(public_key(Unwrap(registry.operator).state,
                              Unwrap(Target(t).envelope).key_id))

\* The fetch loop of call t ends in this step with no head of the operator.
EndsWithoutOperatorHead(t) ==
    /\ call[t].pc = "verify_checkpoint"
    /\ call'[t] # call[t]
    /\ ~IsSome(call[t].operator.head_registry_index)

PastProgression(t) ==
    \/ call[t].pc \in {"store_operator", "store_package", "store_checkpoint"}
    \/ H(t).stores # {}

\* The latest checkpoint the call found is shorter than its target.
Extends(t) ==
    /\ IsSome(Registry0(t).checkpoint)
    /\ Unwrap(Registry0(t).checkpoint).checkpoint.log_length <
           Target(t).checkpoint.log_length

\* C10: a consistency proof is requested exactly when the call reaches the
\* progression check with a stored latest checkpoint shorter than the target,
\* with the lengths and log roots of the two; a rejected proof fails the call
\* with nothing stored; with no stored checkpoint nothing is requested.
C10_ProgressionByConsistencyProof ==
    \A t \in Tasks :
        Running(t) =>
            /\ IsSome(H(t).consistency) <=>
                   "prove_log_consistency" \in H(t).requests
            /\ IsSome(H(t).consistency) =>
                /\ Extends(t)
                /\ "prove_inclusion" \in H(t).proved
                /\ LET from == Unwrap(Registry0(t).checkpoint).checkpoint
                       to == Target(t).checkpoint
                   IN  Unwrap(H(t).consistency) =
                           [from |-> from.log_length, to |-> to.log_length,
                            from_root |-> from.log_root,
                            to_root |-> to.log_root]
            /\ PastProgression(t) /\ Extends(t) =>
                   "prove_log_consistency" \in H(t).proved
            /\ call[t].pc = "prove_log_consistency" => Extends(t)
            /\ /\ Returned(t)
               /\ "prove_log_consistency" \in H(t).requests \ H(t).proved
               => /\ Result(t) = "Api"
                  /\ H(t).stores = {}
                  /\ registry = Registry0(t)

\* A call has passed the progression check by a consistency proof between
\* checkpoints whose log roots differ from their map roots.
C10_Witness ==
    \E t \in Tasks :
        /\ call[t].pc = "store_operator"
        /\ "prove_log_consistency" \in H(t).proved
        /\ Unwrap(H(t).consistency).from_root #
               Unwrap(Registry0(t).checkpoint).checkpoint.map_root

\* The call is past the leaf construction of the inclusion proof.
PastLeafs(t) ==
    \/ call[t].pc \in {"load_checkpoint", "prove_log_consistency",
                       "store_operator", "store_package", "store_checkpoint"}
    \/ H(t).stores # {}
    \/ Returned(t) /\ Result(t) = "Ok"

HasHead(package) ==
    /\ IsSome(head(package.state))
    /\ IsSome(package.head_registry_index)

\* C11: a call never gets past the leaf construction, never stores and never
\* succeeds while a pending package has no head; a package batch that leaves
\* its package without a head ends the call; PackageLogEmpty is returned only
\* for a pending package without a head; every stored package has a head, a
\* head_registry_index and a checkpoint.
C11_NoEmptyPackageLog ==
    /\ \A n \in PackageNames :
           IsSome(registry.packages[n]) =>
               /\ HasHead(Unwrap(registry.packages[n]))
               /\ IsSome(Unwrap(registry.packages[n]).checkpoint)
    /\ \A t \in Tasks :
        Running(t) =>
            /\ PastLeafs(t) =>
                   \A n \in Pending0(t) : HasHead(call[t].updating[n])
            /\ \A id \in call[t].batches :
                   HasHead(call[t].updating[NameOfLog(id)])
            /\ Returned(t) /\ Result(t) = "PackageLogEmpty" =>
                   /\ H(t).stores = {}
                   /\ registry = Registry0(t)
                   /\ \E n \in Pending0(t) : ~HasHead(call[t].updating[n])

\* A call whose fetch responses never named its pending package has passed
\* the signature check and failed with PackageLogEmpty.
C11_Witness ==
    \E t \in Tasks :
        /\ Returned(t)
        /\ Result(t) = "PackageLogEmpty"
        /\ IsSome(Target(t).envelope)
        /\ Pending0(t) # {}

PendingLogs(t) == {package_log(n) : n \in Pending0(t)}

\* C19: a fetch response with records under a log id that no pending package
\* has fails the call with an error and nothing stored, whatever else was
\* validated; every batch the call works on is one of a pending package.
C19_UnrequestedLogId ==
    \A t \in Tasks :
        Running(t) =>
            /\ IsSome(H(t).unrequested) =>
                /\ Unwrap(H(t).unrequested) \notin PendingLogs(t)
                /\ Returned(t)
                /\ Result(t) = "Other"
                /\ H(t).stores = {}
                /\ registry = Registry0(t)
            /\ call[t].batches \subseteq PendingLogs(t)
            /\ IsSome(call[t].log_id) =>
                   Unwrap(call[t].log_id) \in PendingLogs(t)

\* A response named an unrequested log after the records of the operator and
\* of the pending package were validated, in the second page.
C19_Witness ==
    \E t \in Tasks :
        /\ IsSome(H(t).unrequested)
        /\ "a" \in Pending0(t)
        /\ Len(call[t].updating["a"].state) = 2

\* C20: when the validation of a fetched record fails, the PackageInfo values
\* of the call are what they were before the record was applied.
C20_ValidationFailureLeavesEntity ==
    [][\A t \in Tasks :
        /\ call[t].pc \in {"operator_records", "package_records"}
        /\ call'[t].result \in {Some("OperatorValidationFailed"),
                                Some("PackageValidationFailed")}
        => /\ call'[t].updating = call[t].updating
           /\ registry' = registry
      ]_vars

\* ---------------------------------------------------- publish: properties

\* publish_with_info runs or has run (under Client::publish or for the user).
Publishing == IsSome(op.info)

\* What publish_with_info returned, once it has: Client::publish holds it in
\* `res` while it clears the staged information; the user gets it as the
\* result of the operation.
PublishWithInfoResult ==
    IF op.pc = "store_publish" THEN op.res
    ELSE IF op.pc = "done" /\ op.via = "user" THEN op.result
    ELSE None

\* The storage operations of publish_with_info itself: load_publish and
\* store_publish are Client::publish's.
PublishWithInfoAccesses == op.accesses \ {"load_publish", "store_publish"}

\* C12: publish_with_info called with a PublishInfo that has no entries sends
\* no request and touches no storage, whatever the storage holds, and the
\* one thing it returns is NothingToPublish.
C12_NothingToPublish ==
    (Publishing /\ Unwrap(op.info).entries = <<>>) =>
        /\ op.requests = {}
        /\ PublishWithInfoAccesses = {}
        /\ op.pc \in {"publish_with_info", "store_publish", "done"}
        /\ IsSome(PublishWithInfoResult) =>
               PublishWithInfoResult = Some("NothingToPublish")
        /\ (op.pc = "done" /\ op.via = "publish") =>
               op.result \in {Some("NothingToPublish"), Some("Storage")}

\* publish_with_info, called by the user with no entries for a package the
\* storage holds, has returned NothingToPublish.
C12_Witness ==
    /\ Publishing
    /\ Unwrap(op.info).entries = <<>>
    /\ op.via = "user"
    /\ op.pc = "done"
    /\ op.result = Some("NothingToPublish")
    /\ IsSome(registry.packages[Unwrap(op.info).name])

\* publish_with_info has returned.
PublishWithInfoReturned == IsSome(PublishWithInfoResult)

\* The errors a failed synchronization hands to publish_with_info.
SyncErrors ==
    {"Api", "Storage", "Other", "PackageDoesNotExist", "PackageLogEmpty",
     "NoOperatorRecords", "OperatorValidationFailed",
     "PackageValidationFailed", "InvalidCheckpointSignature",
     "InvalidCheckpointKeyId", "CheckpointLogLengthRewind",
     "CheckpointChangedLogRootOrMapRoot"}

\* C13 as stated: a record is submitted only with (initializing, no head) or
\* (not initializing, head known), and in the two other combinations,
\* initializing with an explicit head and not initializing with no head
\* resolved, publish_with_info returns the initialization conflict
\* (CannotInitializePackage, MustInitializePackage) with no request sent.  A
\* failing load_package aside.
C13_ConflictBeforeAnyNetworkCall ==
    Publishing =>
        LET info == Unwrap(op.info)
            init == initializing(info)
        IN  /\ "publish_package_record" \in op.requests =>
                   init # IsSome(info.head)
            /\ (PublishWithInfoReturned /\ info.entries # <<>>
                    /\ init /\ IsSome(info.head)) =>
                   /\ op.requests = {}
                   /\ PublishWithInfoResult \in
                          {Some("CannotInitializePackage"), Some("Storage")}
            /\ (PublishWithInfoReturned /\ info.entries # <<>>
                    /\ ~init /\ ~IsSome(info.head)) =>
                   /\ op.requests = {}
                   /\ PublishWithInfoResult \in
                          {Some("MustInitializePackage"), Some("Storage")}

\* C13, amended: a record is submitted only with (initializing, no head) or
\* (not initializing, head known).  Initializing with an explicit head,
\* publish_with_info sends no request and returns CannotInitializePackage, or
\* Storage when load_package fails.  Not initializing with no head given, it
\* first asks for the latest checkpoint and synchronizes the package: it
\* then returns the error of that, or goes on with the head of the
\* synchronized package, which is never absent; it returns without a request
\* only when load_package fails, and it never returns
\* MustInitializePackage.
C13_HeadPrecondition ==
    Publishing =>
        LET info == Unwrap(op.info)
            init == initializing(info)
            synced == "latest_checkpoint" \in op.requests
        IN  /\ "publish_package_record" \in op.requests =>
                   init # IsSome(info.head)
            /\ (PublishWithInfoReturned /\ info.entries # <<>>
                    /\ init /\ IsSome(info.head)) =>
                   /\ op.requests = {}
                   /\ PublishWithInfoAccesses = {"load_package"}
                   /\ PublishWithInfoResult \in
                          {Some("CannotInitializePackage"), Some("Storage")}
            /\ synced => ~init
            /\ (op.pc = "latest_checkpoint" \/ synced) =>
                   "load_package" \in op.accesses
            /\ (synced /\ op.pc \in {"publish_package_record",
                                      "upload_content"}) =>
                   /\ IsSome(info.head)
                   /\ info.head = head(Unwrap(op.package).state)
            /\ (PublishWithInfoReturned /\ info.entries # <<>>
                    /\ ~init /\ ~IsSome(info.head)) =>
                   /\ Unwrap(PublishWithInfoResult) \in SyncErrors
                   /\ (~synced) => PublishWithInfoResult = Some("Storage")
            /\ PublishWithInfoResult # Some("MustInitializePackage")
            /\ op.result # Some("MustInitializePackage")

\* publish_with_info, not initializing and given no head, has synchronized
\* the package, submitted the record after the head the synchronization
\* found, and returned the record id.
C13_Witness ==
    /\ Publishing
    /\ ~initializing(Unwrap(op.info))
    /\ "latest_checkpoint" \in op.requests
    /\ "fetch_logs" \in op.requests
    /\ "publish_package_record" \in op.requests
    /\ PublishWithInfoResult = Some("Ok")

\* Client::publish has returned to the user.
PublishReturned == op.kind = "publish" /\ op.pc = "done"

\* C14 as stated: once publish, called with publish information staged, has
\* returned, store_publish(None) was performed and nothing is staged any
\* more, whatever publish_with_info returned; with nothing staged publish
\* returns NotPublishing and sends no request.  A failing load_publish aside.
C14_StagedInfoCleared ==
    PublishReturned =>
        IF IsSome(op.info)
        THEN "store_publish" \in op.accesses /\ local.publish = None
        ELSE /\ op.requests = {}
             /\ op.result \in {Some("NotPublishing"), Some("Storage")}

\* C14, amended: once publish, called with publish information staged, has
\* returned, store_publish(None) was attempted; unless that failed, in
\* which case publish returned the storage error and the information is
\* still staged, nothing is staged any more, whatever publish_with_info
\* returned.  publish enters publish_with_info only with staged information;
\* with nothing staged, or when load_publish fails, it sends no request,
\* touches the storage with load_publish alone, and returns NotPublishing
\* (Storage when load_publish fails).
C14_StagedInfoConsumed ==
    /\ PublishReturned =>
           IF IsSome(op.info)
           THEN /\ "store_publish" \in op.accesses
                /\ \/ local.publish = None
                   \/ op.result = Some("Storage") /\ IsSome(local.publish)
           ELSE /\ op.requests = {}
                /\ op.accesses = {"load_publish"}
                /\ op.result \in {Some("NotPublishing"), Some("Storage")}
                /\ op.result = Some("NotPublishing") => local.publish = None
    /\ (op.kind = "publish" /\ op.pc \notin {"idle", "done"}) =>
           /\ IsSome(op.info)
           /\ IsSome(local.publish)
           /\ Unwrap(local.publish).name = Unwrap(op.info).name
           /\ Unwrap(local.publish).entries = Unwrap(op.info).entries
    /\ op.result = Some("NotPublishing") =>
           op.kind = "publish" /\ ~IsSome(op.info)

\* publish was called with publish information staged, the registry refused
\* the record, and publish has cleared the staged information and returned
\* the error.
C14_Witness ==
    /\ PublishReturned
    /\ IsSome(op.info)
    /\ "publish_package_record" \in op.requests
    /\ op.result = Some("Api")
    /\ "store_publish" \in op.accesses
    /\ local.publish = None

\* ------------------------------------------- wait_for_publish: properties

Waiting == op.kind = "wait_for_publish"

WaitReturned == Waiting /\ op.pc = "done"

\* The state wait_for_publish saw last, if it saw one.
LastState == IF IsSome(op.last) THEN Unwrap(op.last).state ELSE "none"

\* The errors of a failed get_package_record request.
RequestErrors == {Some("Api"), Some("PackageDoesNotExist")}

\* Every state seen but the last was Processing, each was followed by one
\* sleep and one new request: a request more than sleeps once the first
\* request is out, and as many while the next request is due.
OneRequestPerSleep ==
    Waiting =>
        /\ op.pc \in {"match", "sleep", "done"} => op.polls = op.slept + 1
        /\ op.pc = "get_package_record" => op.polls = op.slept
        /\ op.pc = "sleep" => LastState = "Processing"
        /\ (op.pc = "get_package_record" /\ op.polls > 0) =>
               LastState = "Processing"
        /\ op.requests \subseteq {"get_package_record"}

\* What wait_for_publish returns when it has seen a state that ends the wait.
ReturnsWhatItSaw ==
    WaitReturned =>
        /\ op.result = Some("Ok") => LastState = "Published"
        /\ (LastState = "Published" /\ op.result \notin RequestErrors) =>
               op.result = Some("Ok")
        /\ LastState = "Rejected" =>
               /\ op.result = Some("PublishRejected")
               /\ op.reason = Unwrap(op.last).reason
        /\ LastState = "Sourcing" =>
               op.result = Some("PackageMissingContent")

\* C15 as stated: wait_for_publish returns Ok only if the state it saw last
\* is Published, PublishRejected with the reason of the registry if it saw
\* Rejected, PackageMissingContent if it saw Sourcing; it has not returned
\* when the state it saw last is Processing; every Processing seen is
\* followed by a sleep and exactly one new request.
C15_NeverReturnsOnProcessing ==
    /\ ReturnsWhatItSaw
    /\ OneRequestPerSleep
    /\ WaitReturned => LastState # "Processing"

\* C15, amended: as stated, except that wait_for_publish does return when
\* the state it saw last is Processing: when the request that followed the
\* sleep fails, with the error of that request.
C15_WaitOutcomes ==
    /\ ReturnsWhatItSaw
    /\ OneRequestPerSleep
    /\ (WaitReturned /\ LastState = "Processing") =>
           op.result \in RequestErrors /\ op.polls >= 2
    /\ (WaitReturned /\ op.result \in RequestErrors) =>
           LastState \in {"none", "Processing"}

\* wait_for_publish saw Processing, slept, saw Rejected and returned
\* PublishRejected with the reason of the registry.
C15_Witness ==
    /\ WaitReturned
    /\ op.slept >= 1
    /\ LastState = "Rejected"
    /\ op.result = Some("PublishRejected")
    /\ op.reason = Some("policy")

\* The record has left Processing at the registry.
Terminal ==
    IsSome(op.remote) /\ Unwrap(op.remote).state # "Processing"

\* What wait_for_publish returns for a state that ends the wait.
Outcome(state) ==
    IF state = "Published" THEN Some("Ok")
    ELSE IF state = "Rejected" THEN Some("PublishRejected")
    ELSE Some("PackageMissingContent")

\* wait_for_publish returns only for a state that ends the wait or with the
\* error of a request: no number of Processing answers makes it return.
ReturnsForNoCount ==
    WaitReturned =>
        \/ op.result \in RequestErrors
        \/ /\ LastState \in {"Published", "Rejected", "Sourcing"}
           /\ op.result = Outcome(LastState)

\* C16: wait_for_publish has no bound of its own.  It returns only for a
\* state that ends the wait or for a failed request, and after n Processing
\* answers it has sent n requests, sleeps, and sends request n + 1 (up to
\* the MaxPolls requests of the model).  If no request fails, then once the
\* record has left Processing at the registry the call returns, with the
\* outcome of the state the record has.
C16_NoBuiltInBound ==
    /\ [](ReturnsForNoCount /\ OneRequestPerSleep)
    /\ \A n \in 1 .. MaxPolls - 1 :
           (Waiting /\ op.pc = "sleep" /\ op.polls = n
               /\ LastState = "Processing")
               ~> (op.polls = n + 1 /\ op.slept = n)
    /\ [](op.result \notin RequestErrors) =>
           ((Waiting /\ Terminal)
               ~> (/\ WaitReturned
                   /\ op.last = op.remote
                   /\ op.result = Outcome(Unwrap(op.remote).state)))

\* wait_for_publish has seen Processing MaxPolls - 1 times, has sent the
\* request after each, has seen Processing again and sleeps.
C16_Witness ==
    /\ Waiting
    /\ op.pc = "sleep"
    /\ op.slept = MaxPolls - 1
    /\ op.polls = MaxPolls
    /\ LastState = "Processing"

\* --------------------------------------------------- download: properties

\* The download has the package log: fetch_package returned the package and
\* the release was looked up in its state.
LogAvailable == IsSome(op.resolved)

\* The state a download resolves against is the validated state the storage
\* holds for the package.
ResolvesStoredState ==
    LogAvailable =>
        /\ IsSome(registry.packages[Unwrap(op.name)])
        /\ Unwrap(registry.packages[Unwrap(op.name)]).state =
               Unwrap(op.resolved)

\* The download has neither requested nor stored content.
NoContentDownload ==
    /\ "download_content" \notin op.requests
    /\ "store_content" \notin op.accesses

\* C17: download_exact on a package whose log is available.  When the
\* version has no release in the validated state, or a release that is yanked
\* (no content), it returns PackageVersionDoesNotExist and has neither
\* requested nor stored content; it returns PackageVersionDoesNotExist for
\* nothing else; and a PackageDownload it returns is for a release of that
\* version that has content, carries the digest of that release, and the
\* content storage holds that digest.
C17_DownloadExact ==
    op.kind = "download_exact" =>
        LET version == CHOOSE v \in Unwrap(op.wanted) : TRUE
            found == release(Unwrap(op.resolved), version)
            absent == ~IsSome(found) \/ ~IsSome(content(Unwrap(found)))
        IN  /\ ResolvesStoredState
            /\ (LogAvailable /\ absent) =>
                   /\ op.pc = "done"
                   /\ op.result = Some("PackageVersionDoesNotExist")
                   /\ op.download = None
                   /\ NoContentDownload
            /\ op.result = Some("PackageVersionDoesNotExist") =>
                   LogAvailable /\ absent
            /\ op.result = Some("Ok(PackageDownload)") =>
                   /\ LogAvailable
                   /\ ~absent
                   /\ op.download =
                          Some([version |-> version,
                                digest |-> Unwrap(content(Unwrap(found)))])
                   /\ Unwrap(op.download).digest \in local.content
            /\ op.result # Some("Ok(None)")

\* download_exact asked for a version the synchronized log has released and
\* yanked, and returned PackageVersionDoesNotExist.
C17_Witness ==
    /\ op.kind = "download_exact"
    /\ op.pc = "done"
    /\ LogAvailable
    /\ "fetch_logs" \in op.requests
    /\ LET found == release(Unwrap(op.resolved),
                            CHOOSE v \in Unwrap(op.wanted) : TRUE)
       IN  IsSome(found) /\ ~IsSome(content(Unwrap(found)))
    /\ op.result = Some("PackageVersionDoesNotExist")

Logs == PackageLogIds \cup {operator_log}

\* What call c holds of log id: the operator, or the package of that log.
Held(c, id) ==
    IF id = operator_log THEN c.operator
    ELSE IF NameOfLog(id) \in DOMAIN c.updating
    THEN c.updating[NameOfLog(id)]
    ELSE PackageInfo_new(NameOfLog(id))

StrictlyIncreasing(s) == \A i, j \in 1 .. Len(s) : i < j => s[i] < s[j]

\* C21: in every step of a call, the validator of a log is invoked on at
\* most one record, and on a record only if the log holds no
\* head_registry_index or the record's registry_index is above the one held;
\* a step of a record loop that invokes no validator and does not end the
\* call changes nothing of what the call holds of any log (state,
\* head_registry_index, head_fetch_token); and the registry_index values
\* passed to one log's validator within the call are strictly increasing.
C21_StrictSkipRule ==
    [][\A t \in Tasks, id \in Logs :
        LET c == call[t]
            d == call'[t]
            before == Held(c, id)
            passed == c.hist.passed[id]
            now == d.hist.passed[id]
        IN  c.pc \in {"operator_records", "package_records"} =>
              /\ now # passed =>
                     /\ Len(now) = Len(passed) + 1
                     /\ SubSeq(now, 1, Len(passed)) = passed
                     /\ \/ ~IsSome(before.head_registry_index)
                        \/ now[Len(now)] > Unwrap(before.head_registry_index)
              /\ (now = passed /\ d.pc # "done") => Held(d, id) = before
              /\ (now # passed /\ d.pc # "done") =>
                     /\ Held(d, id).head_registry_index =
                            Some(now[Len(now)])
                     /\ Held(d, id).head_fetch_token # before.head_fetch_token
              /\ StrictlyIncreasing(now)]_vars

\* A call validated a record of the operator log and one of a package log,
\* asked for the next page, and was sent a record of the package log again
\* that the earlier page had delivered: it passed it over.
C21_Witness ==
    \E t \in Tasks, n \in PackageNames :
        /\ call[t].pc = "package_records"
        /\ call[t].log_id = Some(package_log(n))
        /\ call[t].hist.overlap
        /\ Len(call[t].hist.passed[package_log(n)]) = 1
        /\ Len(call[t].hist.passed[operator_log]) >= 1
        /\ Len(call[t].updating[n].state) = 1

\* The fetch token of the last record a log has accepted, None for a log that
\* has accepted none: the token the registry issued with that record.
LastAccepted(info) ==
    IF info.state = <<>> THEN None
    ELSE Some(fetch_token([seq |-> info.state[Len(info.state)],
                           registry_index |->
                               Unwrap(info.head_registry_index),
                           kind |-> "ok"]))

\* What call c held of log id when it began.
Held0(c, id) ==
    IF id = operator_log
    THEN IF IsSome(Unwrap(c.hist.registry0).operator)
         THEN Unwrap(Unwrap(c.hist.registry0).operator)
         ELSE OperatorInfo_default
    ELSE c.hist.updating0[NameOfLog(id)]

\* C22: every fetch_logs request a call sends carries the log_length of the
\* target checkpoint, a cursor entry for exactly the pending packages, and
\* for the operator log and each pending package log the fetch token of the
\* last record the log has accepted, None if it has accepted none: the token
\* the call began with while the call has validated no record of the log,
\* the token of the last record it validated otherwise.
C22_FetchCursors ==
    [][\A t \in Tasks :
        LET c == call[t]
            d == call'[t]
            request == Unwrap(d.hist.fetch)
            cursor(id) == IF id = operator_log THEN request.operator
                          ELSE request.packages[NameOfLog(id)]
        IN  (c.pc = "fetch_logs" /\ d.pc # "fetch_logs") =>
              /\ IsSome(d.hist.fetch)
              /\ "fetch_logs" \in d.hist.requests
              /\ request.log_length =
                     Unwrap(c.ts_checkpoint).checkpoint.log_length
              /\ DOMAIN request.packages = c.packages
              /\ c.packages # {}
              /\ \A id \in {operator_log}
                           \cup {package_log(n) : n \in c.packages} :
                    /\ cursor(id) = LastAccepted(Held(c, id))
                    /\ c.hist.passed[id] = <<>> =>
                           cursor(id) = Held0(c, id).head_fetch_token
                    /\ c.hist.passed[id] # <<>> =>
                           /\ IsSome(cursor(id))
                           /\ IndexOfToken(Unwrap(cursor(id))) =
                                  c.hist.passed[id][Len(c.hist.passed[id])]]_vars

\* A call that began with nothing accepted of a package's log has sent a
\* second request, whose cursors are the tokens of the records the first
\* page gave the operator log and the package log.
C22_Witness ==
    \E t \in Tasks, n \in PackageNames :
        /\ call[t].pc = "operator_records"
        /\ n \in call[t].packages
        /\ ~IsSome(call[t].hist.updating0[n].head_fetch_token)
        /\ IsSome(call[t].hist.fetch)
        /\ IsSome(Unwrap(call[t].hist.fetch).packages[n])
        /\ IsSome(Unwrap(call[t].hist.fetch).operator)
        /\ Unwrap(call[t].hist.fetch).packages[n] =
               call[t].updating[n].head_fetch_token

\* The positions of a call inside the fetch loop.
InFetchLoop(pc) ==
    pc \in {"fetch_logs", "operator_records", "package_batches",
            "package_records"}

\* What every step of a call keeps of the fetch loop: a request goes out as
\* the first of the call or after a response with `more`; a response without
\* `more` takes the call to the signature check and one with `more` to the
\* next request; after a response without `more` the call is not in the loop
\* again; and a call that returns from inside the loop returns an error.
FetchLoopStep(t) ==
    LET c == call[t]
        d == call'[t]
    IN  /\ (c.pc = "fetch_logs" /\ d.pc # "fetch_logs") =>
               /\ c.hist.more \in {None, Some(TRUE)}
               /\ c.hist.more = None <=> "fetch_logs" \notin c.hist.requests
        /\ (c.pc = "package_batches" /\ d.pc = "fetch_logs") =>
               d.hist.more = Some(TRUE)
        /\ (c.pc = "package_batches" /\ d.pc = "verify_checkpoint") =>
               d.hist.more = Some(FALSE)
        /\ (InFetchLoop(c.pc) /\ ~InFetchLoop(d.pc)) =>
               \/ d.pc = "verify_checkpoint" /\ c.pc = "package_batches"
               \/ d.pc = "done" /\ d.result # Some("Ok")
        /\ d.hist.more = Some(FALSE) => ~InFetchLoop(d.pc)

\* C23: the fetch loop sends a further request exactly after a response with
\* `more` and ends with the first response without it or with the first
\* error; and when the responses are finite and set `more` only when they
\* deliver a record above a cursor of the request, a call in the loop leaves
\* it: it comes to the signature check, or returns the error that ended the
\* loop.
C23_FetchLoopTerminates ==
    /\ [][\A t \in Tasks : FetchLoopStep(t)]_vars
    /\ \A t \in Tasks :
           InFetchLoop(call[t].pc)
               ~> (\/ call[t].pc = "verify_checkpoint"
                   \/ call[t].pc = "done" /\ call[t].result # Some("Ok"))

\* A call that began with an empty package log was answered a page with
\* `more`, sent a second request from the tokens of that page, was answered
\* a page without `more`, and is at the signature check.
C23_Witness ==
    \E t \in Tasks, n \in PackageNames :
        /\ call[t].pc = "verify_checkpoint"
        /\ call[t].hist.more = Some(FALSE)
        /\ n \in call[t].packages
        /\ ~IsSome(call[t].hist.updating0[n].head_fetch_token)
        /\ IsSome(Unwrap(call[t].hist.fetch).packages[n])

\* ------------------------------------------- fetch_package: properties

\* The operation is a download or a download_exact.
Downloading == op.kind \in {"download", "download_exact"}

\* What every step of a download keeps of fetch_package.
FetchPackageStep ==
    LET name == Unwrap(op.name)
        stored == registry.packages[name]
        o == op'
    IN  /\ (op.pc = "fetch_package" /\ o.pc # "fetch_package") =>
               \/ o.pc = "done" /\ o.result = Some("Storage")
               \/ /\ IsSome(stored)
                  /\ o.pc = "resolve"
                  /\ o.package = stored
               \/ /\ ~IsSome(stored)
                  /\ o.pc = "latest_checkpoint"
        /\ (call[1].pc = "idle" /\ call'[1].pc # "idle") =>
               /\ ~IsSome(stored)
               /\ op.pc = "latest_checkpoint"
               /\ "latest_checkpoint" \in o.requests
               /\ DOMAIN call'[1].updating = {name}
        /\ (op.pc = "update_checkpoint" /\ o.pc = "resolve") =>
               /\ call[1].result = Some("Ok")
               /\ "fetch_logs" \in o.requests
               /\ o.package = stored
               /\ IsSome(stored)
               /\ Unwrap(stored).checkpoint =
                      Some(Unwrap(call[1].ts_checkpoint).checkpoint)
               /\ IsSome(registry.checkpoint)
               /\ Unwrap(registry.checkpoint).checkpoint =
                      Unwrap(call[1].ts_checkpoint).checkpoint
        /\ (~IsSome(op.resolved) /\ IsSome(o.resolved)) =>
               /\ IsSome(stored)
               /\ o.resolved = Some(Unwrap(stored).state)
        /\ "latest_checkpoint" \notin o.requests =>
               /\ registry' = registry
               /\ "fetch_logs" \notin o.requests
               /\ call'[1].pc = "idle"

\* C24: download and download_exact synchronize the package to the latest
\* checkpoint exactly when the storage does not hold it, and then resolve
\* against the state that synchronization persisted; a package the storage
\* holds is resolved against the stored state with no latest_checkpoint and
\* no fetch_logs request and with the stored operator, packages and
\* checkpoint unchanged.
C24_FetchPackage ==
    [][(Downloading /\ op.pc # "done") => FetchPackageStep]_vars

\* A download of package "b", which only an earlier download's
\* synchronization can have stored, was resolved against the stored state
\* without a request for the latest checkpoint.
C24_Witness ==
    /\ Downloading
    /\ op.name = Some("b")
    /\ op.syncs = 1
    /\ LogAvailable
    /\ "latest_checkpoint" \notin op.requests
    /\ op.pc = "done"

\* ------------------------------------------- content upload: properties

\* The digests of a list of missing contents that have an upload endpoint,
\* in the order of the list.
RECURSIVE WithEndpoint(_)
WithEndpoint(missing) ==
    IF missing = <<>> THEN <<>>
    ELSE IF Head(missing).endpoint
    THEN <<Head(missing).digest>> \o WithEndpoint(Tail(missing))
    ELSE WithEndpoint(Tail(missing))

\* The elements of a sequence.
Range(s) == {s[i] : i \in 1 .. Len(s)}

\* s is the beginning of q.
IsPrefix(s, q) == Len(s) <= Len(q) /\ s = SubSeq(q, 1, Len(s))

\* C25: the missing contents the registry lists are taken one at a time in
\* the order listed.  The uploads requested are, in that order, a beginning
\* of the listed digests that have an endpoint, so that a digest without
\* endpoint is passed over; every upload but the last requested succeeded,
\* so that nothing is uploaded after a failed upload; a digest with an
\* endpoint whose content the storage does not hold ends the operation with
\* ContentNotFound (or with the storage's error) and without a request for
\* it; a failed upload is what publish_with_info returns; and it returns the
\* record id only when every listed digest with an endpoint was uploaded.
C25_ContentUpload ==
    (Publishing /\ IsSome(op.listed)) =>
        LET listed == Unwrap(op.listed)
            due == WithEndpoint(listed)
            n == Len(op.tried)
            allUp == op.uploaded = Range(op.tried)
            res == PublishWithInfoResult
        IN  /\ IsPrefix(op.tried, due)
            /\ \/ allUp
               \/ n > 0 /\ op.uploaded = Range(SubSeq(op.tried, 1, n - 1))
            /\ Range(op.tried) \subseteq local.content
            /\ op.pc = "upload_content" =>
                   /\ allUp
                   /\ \E k \in 0 .. Len(listed) :
                          /\ op.missing = SubSeq(listed, k + 1, Len(listed))
                          /\ op.tried = WithEndpoint(SubSeq(listed, 1, k))
            /\ IsSome(res) =>
                   /\ res \in {Some("Ok"), Some("ContentNotFound"),
                               Some("Storage"), Some("PublishRejected"),
                               Some("Api")}
                   /\ res = Some("Ok") <=>
                          (op.tried = due /\ op.uploaded = Range(due))
                   /\ res \in {Some("PublishRejected"), Some("Api")} <=>
                          ~allUp
                   /\ res = Some("ContentNotFound") =>
                          /\ allUp
                          /\ n < Len(due)
                          /\ due[n + 1] \notin local.content
                   /\ res = Some("Storage") => allUp /\ n < Len(due)
                   /\ (allUp /\ n < Len(due)
                             /\ due[n + 1] \notin local.content) =>
                          res \in {Some("ContentNotFound"), Some("Storage")}

\* Two digests were listed with an endpoint and the storage holds the
\* content of both: the first was uploaded, the upload of the second failed,
\* and publish_with_info returned that failure.
C25_Witness ==
    /\ Publishing
    /\ IsSome(op.listed)
    /\ Len(WithEndpoint(Unwrap(op.listed))) = 2
    /\ Len(op.tried) = 2
    /\ Cardinality(op.uploaded) = 1
    /\ PublishWithInfoResult = Some("PublishRejected")

\* ------------------------------------ the trusted checkpoint: properties

\* The log length of the checkpoint a storage holds, 0 for none.
StoredLength(r) ==
    IF IsSome(r.checkpoint) THEN Unwrap(r.checkpoint).checkpoint.log_length
    ELSE 0

\* The packages a call has stored.
PersistedBy(c) ==
    {n \in PackageNames : package_log(n) \in c.hist.stores}

\* A call that stored a package has returned Ok.
SucceededWithPackage(t) ==
    /\ Returned(t)
    /\ call[t].result = Some("Ok")
    /\ PersistedBy(call[t]) # {}

\* C26: synchronizations that run one after the other.  No step takes the
\* stored checkpoint away or makes its log length smaller, whether storage
\* operations fail or not; and when a call that had a package to update has
\* returned Ok, the stored checkpoint is the call's target and every package
\* the call stored carries that checkpoint.
C26_TrustedCheckpointNeverShrinks ==
    /\ [][StoredLength(registry') >= StoredLength(registry)]_vars
    /\ [](\A t \in Tasks :
            SucceededWithPackage(t) =>
                /\ registry.checkpoint = call[t].ts_checkpoint
                /\ \A n \in PersistedBy(call[t]) :
                       /\ IsSome(registry.packages[n])
                       /\ Unwrap(registry.packages[n]).checkpoint =
                              Some(Unwrap(registry.checkpoint).checkpoint))

\* A call that began with a checkpoint of length 1 stored has returned Ok
\* with a package stored and the checkpoint of length 2.
C26_Witness ==
    \E t \in Tasks :
        /\ SucceededWithPackage(t)
        /\ StoredLength(Unwrap(call[t].hist.registry0)) = 1
        /\ StoredLength(registry) = 2

\* -------------------------------- interleaved synchronizations: properties

\* The stored log length and the stored heads do not decrease in this step.
NoDecrease ==
    /\ StoredLength(registry') >= StoredLength(registry)
    /\ \A n \in PackageNames :
           HeadIndex(registry'.packages[n]) >= HeadIndex(registry.packages[n])

\* C27 as stated: with two synchronizations interleaved at their suspension
\* points, the log_length of the stored latest checkpoint never decreases and
\* no stored package's head_registry_index decreases.
C27_InterleavedNeverDecrease ==
    [][NoDecrease]_vars

\* The log length of the checkpoint the call's load_checkpoint found.
LoadedLength(c) ==
    LET found == Unwrap(c.hist.from)
    IN  IF IsSome(found) THEN Unwrap(found).checkpoint.log_length ELSE 0

\* Task t stores in this step.
StoresCheckpoint(t) ==
    /\ call[t].pc = "store_checkpoint"
    /\ <<"checkpoint">> \in call'[t].hist.stores

StoresPackage(t, n) ==
    /\ call[t].pc = "store_package"
    /\ package_log(n) \in call'[t].hist.stores \ call[t].hist.stores

\* C27 as the code has it: each call compares its target with the checkpoint
\* it loaded and its records with the heads it was handed, and stores what it
\* computed.  The checkpoint a call stores is its target and no shorter than
\* the checkpoint its load_checkpoint found; the package head it stores is no
\* lower than the head it was handed; the stored log length or a stored head
\* decreases only in a store of one call made after the other call has
\* stored the same thing in between.
C27_StoresWhatItCompared ==
    [][/\ \A t \in Tasks :
            /\ StoresCheckpoint(t) =>
                   /\ registry'.checkpoint = call[t].ts_checkpoint
                   /\ StoredLength(registry') >= LoadedLength(call[t])
                   /\ StoredLength(registry') < StoredLength(registry) =>
                          \E u \in Tasks \ {t} :
                              /\ <<"checkpoint">> \in call[u].hist.stores
                              /\ StoredLength(registry) >
                                     LoadedLength(call[t])
            /\ \A n \in PackageNames :
                   StoresPackage(t, n) =>
                       /\ HeadIndex(registry'.packages[n]) >=
                              HeadIndex(Some(call[t].hist.updating0[n]))
                       /\ HeadIndex(registry'.packages[n]) <
                              HeadIndex(registry.packages[n]) =>
                              \E u \in Tasks \ {t} :
                                  package_log(n) \in call[u].hist.stores
       /\ NoDecrease
              \/ \E t \in Tasks :
                     \/ StoresCheckpoint(t)
                     \/ \E n \in PackageNames : StoresPackage(t, n)]_vars

\* Both calls have returned Ok, one stored the checkpoint of length 2 and
\* the other, which had loaded the checkpoint before, stored the checkpoint
\* of length 1 after it: the stored log length went from 2 to 1.
C27_Witness ==
    \E t, u \in Tasks :
        /\ t # u
        /\ Returned(t) /\ call[t].result = Some("Ok")
        /\ Returned(u) /\ call[u].result = Some("Ok")
        /\ <<"checkpoint">> \in call[t].hist.stores
        /\ <<"checkpoint">> \in call[u].hist.stores
        /\ Target(u).checkpoint.log_length = 2
        /\ StoredLength(registry) = 1

====
